---- MODULE Spec2Model ----
(***************************************************************************)
(* ACL connection manager of the Bluetooth host stack                      *)
(* (gd/hci/acl_manager.cc): connection table, reassembly of L2CAP PDUs     *)
(* from HCI ACL fragments, Classic / LE connection lifecycle, and the      *)
(* per-connection proxy operations.                                        *)
(*                                                                         *)
(* Every handler of the source is one action.  Tasks posted to the         *)
(* manager's handler wait in handler_tasks and are run one at a time, in   *)
(* posting order.  What a step emits (HCI commands, posts to other         *)
(* handlers, pushes onto an inbound queue) is recorded, in program order,  *)
(* in out; last_op names the operation the step performed and its result.  *)
(***************************************************************************)
EXTENDS Integers, Sequences, FiniteSets, TLC

\* ------------------------------------------------------------------------
\* Bounds of the model
\* ------------------------------------------------------------------------
MaxPduLen == 2
MaxData == 2
MaxFrags == 3
MaxRequests == 3
MaxTasks == 2
MaxQueueFrags == 12

\* ------------------------------------------------------------------------
\* Program constants
\* ------------------------------------------------------------------------
kQualcommDebugHandle == 3804
kMaxQueuedPacketsPerConnection == 10
kL2capBasicFrameHeaderSize == 4

Null == "null"
Uninit == "uninit"

Handles == {1, 2}
Addresses == {"AA:AA:AA:AA:AA:AA", "BB:BB:BB:BB:BB:BB"}
DataBytes == {170, 187}
ErrorCodes == {"SUCCESS", "PAGE_TIMEOUT"}
Reasons == {"REMOTE_USER_TERMINATED_CONNECTION", "CONNECTION_TIMEOUT"}
AddressTypes == {"PUBLIC_DEVICE_ADDRESS", "RANDOM_DEVICE_ADDRESS"}
\* A callback and the handler it is registered with
Registrations == {<<"callback_1", "user_handler_1">>, <<"callback_2", "user_handler_2">>}
LePeer == <<"11:22:33:44:55:66", "PUBLIC_DEVICE_ADDRESS">>
kPacketType == 52248
PacketBoundaryFlags ==
    {"FIRST_NON_AUTOMATICALLY_FLUSHABLE", "CONTINUING_FRAGMENT", "FIRST_AUTOMATICALLY_FLUSHABLE"}

VARIABLES
    acl_connections_,               \* handle -> connection record
    connecting_,                    \* Classic addresses being connected
    connecting_le_,                 \* LE addresses (with type) being connected
    pending_outgoing_connections_,  \* queued Create-Connection requests
    client_callbacks_,              \* client_callbacks_ and client_handler_
    le_client_callbacks_,           \* le_client_callbacks_ and le_client_handler_
    handler_tasks,                  \* tasks posted to the manager's handler, oldest first
    out,                            \* what the last step emitted, in program order
    last_op,                        \* the operation of the last step and its result
    crashed,                        \* an ASSERT failed (or a null handler was used)
    frag_log,                       \* history: fragments routed to a handle since its last FIRST
    emit_log,                       \* history: PDUs pushed for a handle since its last FIRST
    reactor,                        \* where producer and consumer of an inbound queue stand
    in_progress,                    \* where a registration and a disconnection on a handle stand
    default_link_policy_settings_,  \* the manager's copy of the default link policy settings
    link_policy,                    \* history: the Read command Start issued, <<the value last written>>
    event_handlers,                 \* what the manager has registered with the HCI layer
    started,                        \* Start has run and Stop has not
    budget,                         \* history: counters that bound the environment
    in_flight,                      \* history: Create-Connection commands awaiting CONNECTION_COMPLETE
    incoming_owed,                  \* history: answered connection requests awaiting CONNECTION_COMPLETE
    established,                    \* history: handles connected and not yet cleaned up
    le_updates,                     \* history: LE connection updates awaiting their complete event
    proxies                         \* history: handles a connection proxy was handed out for

vars == <<acl_connections_, connecting_, connecting_le_, pending_outgoing_connections_,
          client_callbacks_, le_client_callbacks_, handler_tasks, out, last_op, crashed,
          frag_log, emit_log, reactor, in_progress, default_link_policy_settings_, link_policy,
          event_handlers, started, budget, in_flight, incoming_owed, established, le_updates, proxies>>

\* ------------------------------------------------------------------------
\* Helpers of the model
\* ------------------------------------------------------------------------
Op(name, handle, arg, ret) == [op |-> name, handle |-> handle, arg |-> arg, ret |-> ret]

Eff(k, op, a, b) == [k |-> k, op |-> op, a |-> a, b |-> b]

HciCommands(o) == SelectSeq(o, LAMBDA e : e.k = "hci")

TaskPosts(o) == SelectSeq(o, LAMBDA e : e.k = "task")

\* struct acl_connection as constructed.  hist_disconnect_called is history,
\* not a field of the source: Disconnect has been called on this connection.
NewConnection(address_with_type) ==
    [address_with_type_ |-> address_with_type,
     hist_disconnect_called |-> FALSE,
     is_disconnected_ |-> FALSE,
     disconnect_reason_ |-> Uninit,
     command_complete_handler_ |-> Null,
     disconnect_handler_ |-> Null,
     command_complete_callbacks_ |-> Null,
     le_command_complete_handler_ |-> Null,
     le_command_complete_callbacks_ |-> Null,
     on_disconnect_callback_ |-> Null,
     on_connection_update_complete_callback_ |-> Null,
     on_connection_update_complete_callback_handler_ |-> Null,
     recombination_stage_ |-> << >>,
     remaining_sdu_continuation_packet_size_ |-> 0,
     enqueue_registered_ |-> FALSE,
     incoming_queue_ |-> << >>]

\* ------------------------------------------------------------------------
\* Reassembly
\* ------------------------------------------------------------------------
DataSeqs == UNION {[1..n -> DataBytes] : n \in 0..MaxData}

\* L2CAP basic header: 16-bit little-endian length, then the channel id 0x0001
Header(len) == <<len % 256, len \div 256, 1, 0>>

FirstPayloads ==
    {Header(l) \o d : l \in 0..MaxPduLen, d \in DataSeqs}
        \cup {SubSeq(Header(l), 1, n) : l \in 0..MaxPduLen, n \in 0..3}

GetL2capPduSize(payload) ==
    IF Len(payload) < kL2capBasicFrameHeaderSize
    THEN 0
    ELSE (payload[2] * 256 + payload[1]) % 65536

\* int < size_t: the int is converted to the unsigned type, so a negative
\* value compares as a huge one
IntLessThanSize(i, size) == IF i < 0 THEN FALSE ELSE i < size

\* The result of on_incoming_packet: the connection afterwards and the PDUs
\* it pushed onto incoming_queue_ (none or one).  The int arithmetic stays
\* far inside 32 bits here, so the conversions size_t -> int keep the value.
\* A push that forgets to note the registration
EnqueuePdu_FlagNotSet(c, stage, remaining, pdu) ==
    IF Len(c.incoming_queue_) > kMaxQueuedPacketsPerConnection
    THEN [conn |-> [c EXCEPT !.recombination_stage_ = stage,
                             !.remaining_sdu_continuation_packet_size_ = remaining],
          pushed |-> << >>]
    ELSE [conn |-> [c EXCEPT !.recombination_stage_ = stage,
                             !.remaining_sdu_continuation_packet_size_ = remaining,
                             !.incoming_queue_ = Append(@, pdu)],
          pushed |-> <<pdu>>]

EnqueuePdu(c, stage, remaining, pdu) ==
    IF Len(c.incoming_queue_) > kMaxQueuedPacketsPerConnection
    THEN [conn |-> [c EXCEPT !.recombination_stage_ = stage,
                             !.remaining_sdu_continuation_packet_size_ = remaining],
          pushed |-> << >>]
    ELSE [conn |-> [c EXCEPT !.recombination_stage_ = stage,
                             !.remaining_sdu_continuation_packet_size_ = remaining,
                             !.incoming_queue_ = Append(@, pdu),
                             !.enqueue_registered_ = TRUE],
          pushed |-> <<pdu>>]

OnContinuingFragment(c, payload) ==
    LET size == Len(payload)
        rem == c.remaining_sdu_continuation_packet_size_
    IN  IF IntLessThanSize(rem, size)
        THEN [conn |-> [c EXCEPT !.recombination_stage_ = << >>,
                                 !.remaining_sdu_continuation_packet_size_ = 0],
              pushed |-> << >>]
        ELSE IF rem - size # 0
        THEN [conn |-> [c EXCEPT !.recombination_stage_ = @ \o payload,
                                 !.remaining_sdu_continuation_packet_size_ = rem - size],
              pushed |-> << >>]
        ELSE EnqueuePdu(c, << >>, 0, c.recombination_stage_ \o payload)

OnFirstFragment(c, payload) ==
    LET size == Len(payload)
        l2cap_pdu_size == GetL2capPduSize(payload)
        rem == l2cap_pdu_size - (size - kL2capBasicFrameHeaderSize)
    IN  IF rem > 0
        THEN [conn |-> [c EXCEPT !.recombination_stage_ = payload,
                                 !.remaining_sdu_continuation_packet_size_ = rem],
              pushed |-> << >>]
        ELSE EnqueuePdu(c, c.recombination_stage_, rem, payload)

on_incoming_packet(c, flag, payload) ==
    CASE flag = "FIRST_NON_AUTOMATICALLY_FLUSHABLE" -> [conn |-> c, pushed |-> << >>]
      [] flag = "CONTINUING_FRAGMENT" -> OnContinuingFragment(c, payload)
      [] flag = "FIRST_AUTOMATICALLY_FLUSHABLE" -> OnFirstFragment(c, payload)

\* ------------------------------------------------------------------------
\* Steps
\* ------------------------------------------------------------------------
Running == crashed = "no"

\* Producer and consumer of an inbound queue between calls, the producer not
\* registered with the down end of the queue
IdleReactor == [producer |-> "idle", consumer |-> "idle", registered |-> FALSE]

\* No RegisterDisconnectCallback and no DISCONNECTION_COMPLETE under way on a
\* connection; posted is the history of the disconnect-callback posts made
\* step by step, calls and events count those begun
NothingInProgress ==
    [registration |-> "idle", on_disconnect |-> Null, handler |-> Null, calls |-> 0,
     disconnection |-> "idle", reason |-> Null, events |-> 0,
     posted |-> << >>]

Task(t, a, b) == [t |-> t, a |-> a, b |-> b]

NextTaskIs(t) == handler_tasks # << >> /\ Head(handler_tasks).t = t

tableVars == <<acl_connections_, established, proxies>>
classicVars == <<connecting_, pending_outgoing_connections_, in_flight, incoming_owed>>
leVars == <<connecting_le_, le_updates>>
cbVars == <<client_callbacks_, le_client_callbacks_>>
moduleVars == <<default_link_policy_settings_, link_policy, event_handlers, started>>
reasmVars == <<frag_log, emit_log, reactor, in_progress, moduleVars>>

\* An ASSERT fails (abort), or a null handler is used and the process dies:
\* nothing else changes and no further step is taken.
Abort(cause, op) ==
    /\ crashed' = cause
    /\ out' = << >>
    /\ last_op' = op
    /\ UNCHANGED <<tableVars, classicVars, leVars, cbVars, reasmVars, handler_tasks, budget>>

\* A use of a null handler (handler->Post on nullptr) is undefined behaviour:
\* the process dies, or the call goes through and the posted closure is lost.
UBOutcomes == {"abort", "continue"}

is_classic_link_already_connected(table, address) ==
    \E h \in DOMAIN table : table[h].address_with_type_[1] = address

\* AclManager::RegisterCallbacks: posts handle_register_callbacks.  The upper
\* layer registers once.
RegisterCallbacks(callbacks, handler) ==
    /\ Running
    /\ Len(handler_tasks) < MaxTasks
    /\ ~budget.registered
    /\ handler_tasks' = Append(handler_tasks, Task("handle_register_callbacks", callbacks, handler))
    /\ out' = <<Eff("task", "handle_register_callbacks", callbacks, handler)>>
    /\ last_op' = Op("RegisterCallbacks", 0, callbacks, "void")
    /\ budget' = [budget EXCEPT !.registered = TRUE]
    /\ UNCHANGED <<tableVars, classicVars, leVars, cbVars, reasmVars, crashed>>

handle_register_callbacks ==
    /\ Running
    /\ NextTaskIs("handle_register_callbacks")
    /\ LET t == Head(handler_tasks)
       IN  IF client_callbacks_.callbacks # Null
           THEN Abort("ASSERT client_callbacks_ == nullptr", Op("handle_register_callbacks", 0, t.a, "abort"))
           ELSE /\ client_callbacks_' = [callbacks |-> t.a, handler |-> t.b]
                /\ handler_tasks' = Tail(handler_tasks)
                /\ out' = << >>
                /\ last_op' = Op("handle_register_callbacks", 0, t.a, "void")
                /\ UNCHANGED <<tableVars, classicVars, leVars, le_client_callbacks_, reasmVars,
                               budget, crashed>>

\* AclManager::RegisterLeCallbacks: posts handle_register_le_callbacks
RegisterLeCallbacks(callbacks, handler) ==
    /\ Running
    /\ Len(handler_tasks) < MaxTasks
    /\ ~budget.le_registered
    /\ handler_tasks' = Append(handler_tasks, Task("handle_register_le_callbacks", callbacks, handler))
    /\ out' = <<Eff("task", "handle_register_le_callbacks", callbacks, handler)>>
    /\ last_op' = Op("RegisterLeCallbacks", 0, callbacks, "void")
    /\ budget' = [budget EXCEPT !.le_registered = TRUE]
    /\ UNCHANGED <<tableVars, classicVars, leVars, cbVars, reasmVars, crashed>>

handle_register_le_callbacks ==
    /\ Running
    /\ NextTaskIs("handle_register_le_callbacks")
    /\ LET t == Head(handler_tasks)
       IN  IF le_client_callbacks_.callbacks # Null
           THEN Abort("ASSERT le_client_callbacks_ == nullptr",
                      Op("handle_register_le_callbacks", 0, t.a, "abort"))
           ELSE /\ le_client_callbacks_' = [callbacks |-> t.a, handler |-> t.b]
                /\ handler_tasks' = Tail(handler_tasks)
                /\ out' = << >>
                /\ last_op' = Op("handle_register_le_callbacks", 0, t.a, "void")
                /\ UNCHANGED <<tableVars, classicVars, leVars, client_callbacks_, reasmVars,
                               budget, crashed>>

\* AclManager::CreateConnection: posts create_connection.  The request number
\* is history: it orders the requests as they were made.
CreateConnection(address) ==
    /\ Running
    /\ Len(handler_tasks) < MaxTasks
    /\ budget.requests < MaxRequests
    /\ budget' = [budget EXCEPT !.requests = @ + 1]
    /\ handler_tasks' = Append(handler_tasks, Task("create_connection", address, budget.requests + 1))
    /\ out' = <<Eff("task", "create_connection", address, budget.requests + 1)>>
    /\ last_op' = Op("CreateConnection", 0, address, "void")
    /\ UNCHANGED <<tableVars, classicVars, leVars, cbVars, reasmVars, crashed>>

\* A connection attempt the controller will report on with CONNECTION_COMPLETE
Attempt(address, id, kind) == [address |-> address, id |-> id, kind |-> kind]

\* What create_connection does with a request: "issue", "queue" or "drop"
CreateConnectionDecision(connecting, table, address) ==
    IF connecting = {}
    THEN IF is_classic_link_already_connected(table, address) THEN "drop" ELSE "issue"
    ELSE "queue"

create_connection ==
    /\ Running
    /\ NextTaskIs("create_connection")
    /\ LET t == Head(handler_tasks)
           address == t.a
           decision == CreateConnectionDecision(connecting_, acl_connections_, address)
       IN  IF client_callbacks_.callbacks = Null
           THEN Abort("ASSERT client_callbacks_ != nullptr", Op("create_connection", 0, address, "abort"))
           ELSE /\ handler_tasks' = Tail(handler_tasks)
                /\ last_op' = Op("create_connection", 0, address, decision)
                /\ connecting_' = IF decision = "issue" THEN connecting_ \cup {address} ELSE connecting_
                /\ out' = IF decision = "issue"
                          THEN <<Eff("hci", "CREATE_CONNECTION", address, t.b)>>
                          ELSE << >>
                /\ in_flight' = IF decision = "issue"
                                THEN in_flight \cup {Attempt(address, t.b, "outbound")}
                                ELSE in_flight
                /\ pending_outgoing_connections_' =
                       IF decision = "queue"
                       THEN Append(pending_outgoing_connections_, Attempt(address, t.b, "outbound"))
                       ELSE pending_outgoing_connections_
                /\ UNCHANGED <<tableVars, incoming_owed, leVars, cbVars, reasmVars, budget, crashed>>

should_accept_connection_(address) == TRUE

\* A reply that does not look for an existing link to the peer
IncomingConnectionReply_NoLinkCheck(callbacks, table, address) ==
    IF callbacks = Null
    THEN Eff("hci", "REJECT_CONNECTION_REQUEST", address, "LIMITED_RESOURCES")
    ELSE Eff("hci", "ACCEPT_CONNECTION_REQUEST", address, "BECOME_MASTER")

\* The reply on_incoming_connection gives to a connection request
IncomingConnectionReply(callbacks, table, address) ==
    IF callbacks = Null
    THEN Eff("hci", "REJECT_CONNECTION_REQUEST", address, "LIMITED_RESOURCES")
    ELSE IF is_classic_link_already_connected(table, address)
    THEN Eff("hci", "REJECT_CONNECTION_REQUEST", address, "UNACCEPTABLE_BD_ADDR")
    ELSE IF should_accept_connection_(address)
    THEN Eff("hci", "ACCEPT_CONNECTION_REQUEST", address, "BECOME_MASTER")
    ELSE Eff("hci", "REJECT_CONNECTION_REQUEST", address, "LIMITED_RESOURCES")

\* CONNECTION_REQUEST event.  The controller has one request per peer
\* outstanding at a time.
on_incoming_connection(address) ==
    /\ Running
    /\ \A o \in incoming_owed : o.address # address
    /\ LET reply == IncomingConnectionReply(client_callbacks_.callbacks, acl_connections_, address)
       IN  /\ connecting_' = IF client_callbacks_.callbacks = Null THEN connecting_
                                                                  ELSE connecting_ \cup {address}
           /\ out' = <<reply>>
           /\ incoming_owed' = incoming_owed \cup
                  {Attempt(address, 0, IF reply.op = "ACCEPT_CONNECTION_REQUEST" THEN "accepted"
                                                                                  ELSE "rejected")}
           /\ last_op' = Op("on_incoming_connection", 0, address, reply.op)
    /\ UNCHANGED <<tableVars, pending_outgoing_connections_, in_flight, leVars, cbVars, reasmVars,
                   handler_tasks, budget, crashed>>

\* A cancel_connect that does not look the address up in connecting_
cancel_connect_NoFindCheck(connecting, address) ==
    <<Eff("hci", "CREATE_CONNECTION_CANCEL", address, Null)>>

\* cancel_connect: the HCI commands it enqueues
cancel_connect(connecting, address) ==
    IF address \notin connecting
    THEN << >>
    ELSE <<Eff("hci", "CREATE_CONNECTION_CANCEL", address, Null)>>

\* The command status of the Accept-Connection-Request that accept_connection
\* enqueued for address; the HCI layer hands it over before the attempt
\* completes.  In the history the attempt is then acknowledged, or refused by
\* the controller.
on_accept_connection_status(address, status) ==
    /\ Running
    /\ Attempt(address, 0, "accepted") \in incoming_owed
    /\ out' = IF status # "SUCCESS" THEN cancel_connect(connecting_, address) ELSE << >>
    /\ incoming_owed' = (incoming_owed \ {Attempt(address, 0, "accepted")}) \cup
           {Attempt(address, 0, IF status = "SUCCESS" THEN "acknowledged" ELSE "rejected")}
    /\ last_op' = Op("on_accept_connection_status", 0, <<address, status>>, "void")
    /\ UNCHANGED <<tableVars, connecting_, pending_outgoing_connections_, in_flight, leVars, cbVars,
                   reasmVars, handler_tasks, budget, crashed>>

on_classic_connection_complete(connecting, address) == connecting \ {address}

\* The loop that ends on_connection_complete: the queue afterwards and the
\* request issued (a one-element sequence) or none
RECURSIVE DrainPending(_, _)
DrainPending(pending, table) ==
    IF pending = << >>
    THEN [pending |-> << >>, issued |-> << >>]
    ELSE IF ~is_classic_link_already_connected(table, Head(pending).address)
    THEN [pending |-> Tail(pending), issued |-> <<Head(pending)>>]
    ELSE DrainPending(Tail(pending), table)

\* What the code does when it posts to the upper Classic handler
ClientPost(cb, a, b) ==
    Eff("post", client_callbacks_.handler, cb, <<a, b>>)

\* CONNECTION_COMPLETE event.  attempt is the attempt the controller reports
\* on: an outbound Create-Connection in flight or an answered request; a
\* rejected request completes with an error status; the handle of a new link
\* is one the controller has no live link on.
on_connection_complete(attempt, status, handle, ub) ==
    /\ Running
    /\ attempt \in in_flight \cup incoming_owed
    /\ attempt.kind = "rejected" => status # "SUCCESS"
    /\ handle \in DOMAIN acl_connections_ => acl_connections_[handle].is_disconnected_
    /\ LET address == attempt.address
           op(r) == Op("on_connection_complete", handle, <<address, status>>, r)
           ghosts == /\ in_flight' = in_flight \ {attempt}
                     /\ incoming_owed' = incoming_owed \ {attempt}
       IN  IF status # "SUCCESS"
           THEN IF client_callbacks_.handler = Null /\ ub = "abort"
                THEN Abort("null client_handler_", op("abort"))
                ELSE /\ connecting_' = on_classic_connection_complete(connecting_, address)
                     /\ out' = <<ClientPost("OnConnectFail", address, status)>>
                     /\ last_op' = op("fail")
                     /\ ghosts
                     /\ UNCHANGED <<tableVars, pending_outgoing_connections_, leVars, cbVars,
                                    reasmVars, handler_tasks, budget, crashed>>
           ELSE IF handle \in DOMAIN acl_connections_
           THEN Abort("ASSERT acl_connections_.count(handle) == 0", op("abort"))
           ELSE IF client_callbacks_.handler = Null /\ ub = "abort"
           THEN Abort("null client_handler_", op("abort"))
           ELSE LET table == [h \in DOMAIN acl_connections_ \cup {handle} |->
                                 IF h = handle
                                 THEN NewConnection(<<address, "PUBLIC_DEVICE_ADDRESS">>)
                                 ELSE acl_connections_[h]]
                    connecting == on_classic_connection_complete(connecting_, address)
                    drain == DrainPending(pending_outgoing_connections_, table)
                IN  /\ acl_connections_' = table
                    /\ established' = established \cup {handle}
                    /\ proxies' = proxies \cup {handle}
                    /\ pending_outgoing_connections_' = drain.pending
                    /\ connecting_' = connecting \cup {r.address : r \in {drain.issued[i] : i \in DOMAIN drain.issued}}
                    /\ out' = <<Eff("sched", "Register", handle, Null),
                                ClientPost("OnConnectSuccess", handle, address)>>
                               \o [i \in DOMAIN drain.issued |->
                                      Eff("hci", "CREATE_CONNECTION", drain.issued[i].address,
                                          drain.issued[i].id)]
                    /\ in_flight' = (in_flight \ {attempt}) \cup {drain.issued[i] : i \in DOMAIN drain.issued}
                    /\ incoming_owed' = incoming_owed \ {attempt}
                    /\ last_op' = op("success")
                    /\ UNCHANGED <<leVars, cbVars, reasmVars, handler_tasks, budget, crashed>>

\* ------------------------------------------------------------------------
\* LE connections
\* ------------------------------------------------------------------------
\* An address of all zeroes (Address::IsEmpty)
kEmptyAddress == "00:00:00:00:00:00"

on_common_le_connection_complete(connecting_le, address_with_type) ==
    connecting_le \ {address_with_type}

\* A handler that reports the peer address whatever the resolvable address
ReportingAddress_IgnoreResolvable(address_with_type, peer_resolvable_address) == address_with_type

\* The address on_le_enhanced_connection_complete reports and stores
ReportingAddress(address_with_type, peer_resolvable_address) ==
    IF peer_resolvable_address # kEmptyAddress
    THEN <<peer_resolvable_address, "RANDOM_DEVICE_ADDRESS">>
    ELSE address_with_type

\* AclManager::CreateLeConnection posts create_le_connection
CreateLeConnection(address_with_type) ==
    /\ Running
    /\ Len(handler_tasks) < MaxTasks
    /\ budget.requests < MaxRequests
    /\ budget' = [budget EXCEPT !.requests = @ + 1]
    /\ handler_tasks' = Append(handler_tasks, Task("create_le_connection", address_with_type, Null))
    /\ out' = <<Eff("task", "create_le_connection", address_with_type, Null)>>
    /\ last_op' = Op("CreateLeConnection", 0, address_with_type, "void")
    /\ UNCHANGED <<tableVars, classicVars, leVars, cbVars, reasmVars, crashed>>

\* extended: the controller's LE features have bit 0x0010 set
create_le_connection(extended) ==
    /\ Running
    /\ NextTaskIs("create_le_connection")
    /\ LET address_with_type == Head(handler_tasks).a
       IN  IF le_client_callbacks_.callbacks = Null
           THEN Abort("ASSERT le_client_callbacks_ != nullptr",
                      Op("create_le_connection", 0, address_with_type, "abort"))
           ELSE /\ handler_tasks' = Tail(handler_tasks)
                /\ connecting_le_' = connecting_le_ \cup {address_with_type}
                /\ out' = IF extended
                          THEN <<Eff("hci", "LE_SET_RANDOM_ADDRESS", Null, Null),
                                 Eff("hci", "LE_EXTENDED_CREATE_CONNECTION", address_with_type, Null)>>
                          ELSE <<Eff("hci", "LE_CREATE_CONNECTION", address_with_type, Null)>>
                /\ last_op' = Op("create_le_connection", 0, address_with_type, "void")
                /\ UNCHANGED <<tableVars, classicVars, le_updates, cbVars, reasmVars, budget, crashed>>

LeClientPost(cb, a, b) ==
    Eff("post", le_client_callbacks_.handler, cb, <<a, b>>)

\* The part the two LE connection-complete handlers share, for the address
\* they report; event is the peer address (and resolvable address) the event
\* carries
LeConnectionCompleteCommon(name, address_with_type, status, handle, ub, event) ==
    LET op(r) == Op(name, handle, <<address_with_type, status>> \o event, r)
    IN  IF le_client_callbacks_.handler = Null /\ ub = "abort" /\ status # "SUCCESS"
        THEN Abort("null le_client_handler_", op("abort"))
        ELSE IF status # "SUCCESS"
        THEN /\ connecting_le_' = on_common_le_connection_complete(connecting_le_, address_with_type)
             /\ out' = <<LeClientPost("OnLeConnectFail", address_with_type, status)>>
             /\ last_op' = op("fail")
             /\ UNCHANGED <<tableVars, classicVars, le_updates, cbVars, reasmVars, handler_tasks,
                            budget, crashed>>
        ELSE IF handle \in DOMAIN acl_connections_
        THEN Abort("ASSERT acl_connections_.count(handle) == 0", op("abort"))
        ELSE IF le_client_callbacks_.handler = Null /\ ub = "abort"
        THEN Abort("null le_client_handler_", op("abort"))
        ELSE /\ connecting_le_' = on_common_le_connection_complete(connecting_le_, address_with_type)
             /\ acl_connections_' = [h \in DOMAIN acl_connections_ \cup {handle} |->
                                        IF h = handle THEN NewConnection(address_with_type)
                                                      ELSE acl_connections_[h]]
             /\ established' = established \cup {handle}
             /\ proxies' = proxies \cup {handle}
             /\ out' = <<Eff("sched", "Register", handle, Null),
                         LeClientPost("OnLeConnectSuccess", address_with_type, handle)>>
             /\ last_op' = op("success")
             /\ UNCHANGED <<classicVars, le_updates, cbVars, reasmVars, handler_tasks, budget, crashed>>

\* LE CONNECTION_COMPLETE meta-event
on_le_connection_complete(address_with_type, status, handle, ub) ==
    /\ Running
    /\ handle \in DOMAIN acl_connections_ => acl_connections_[handle].is_disconnected_
    /\ LeConnectionCompleteCommon("on_le_connection_complete", address_with_type, status, handle, ub,
                                  <<address_with_type>>)

\* LE ENHANCED_CONNECTION_COMPLETE meta-event
on_le_enhanced_connection_complete(address_with_type, peer_resolvable_address, status, handle, ub) ==
    /\ Running
    /\ handle \in DOMAIN acl_connections_ => acl_connections_[handle].is_disconnected_
    /\ LeConnectionCompleteCommon("on_le_enhanced_connection_complete",
                                  ReportingAddress(address_with_type, peer_resolvable_address),
                                  status, handle, ub, <<address_with_type, peer_resolvable_address>>)

\* ------------------------------------------------------------------------
\* Disconnection
\* ------------------------------------------------------------------------
\* acl_connection::call_disconnect_callback: the post it makes, and the
\* connection afterwards (the once-callback has been moved out of the slot)
DisconnectCallbackPost(c) ==
    Eff("post", c.disconnect_handler_, c.on_disconnect_callback_, c.disconnect_reason_)

call_disconnect_callback(c) == [c EXCEPT !.on_disconnect_callback_ = Null]

\* DISCONNECTION_COMPLETE event
on_disconnection_complete(handle, status, reason, ub) ==
    /\ Running
    /\ LET op(r) == Op("on_disconnection_complete", handle, <<status, reason>>, r)
       IN  IF status # "SUCCESS"
           THEN /\ out' = << >>
                /\ last_op' = op("error")
                /\ UNCHANGED <<tableVars, classicVars, leVars, cbVars, reasmVars, handler_tasks,
                               budget, crashed>>
           ELSE IF handle \notin DOMAIN acl_connections_
           THEN Abort("ASSERT acl_connections_.count(handle) == 1", op("abort"))
           ELSE LET c == [acl_connections_[handle] EXCEPT !.is_disconnected_ = TRUE,
                                                          !.disconnect_reason_ = reason]
                IN  IF c.disconnect_handler_ = Null /\ ub = "abort"
                    THEN Abort("null disconnect_handler_", op("abort"))
                    ELSE /\ acl_connections_' =
                                [acl_connections_ EXCEPT ![handle] = call_disconnect_callback(c)]
                         /\ out' = <<Eff("sched", "SetDisconnect", handle, Null),
                                     DisconnectCallbackPost(c)>>
                         /\ last_op' = op("disconnected")
                         /\ UNCHANGED <<established, proxies, classicVars, leVars, cbVars, reasmVars,
                                        handler_tasks, budget, crashed>>

\* ------------------------------------------------------------------------
\* Operations of the connection proxies.  Each runs in its caller's context,
\* on a handle a proxy exists for.
\* ------------------------------------------------------------------------
ProxyCall(handle) ==
    /\ Running
    /\ handle \in proxies
    /\ Len(handler_tasks) < MaxTasks

UnknownHandle(name, handle) ==
    Abort("ASSERT connection != acl_connections_.end()", Op(name, handle, Null, "abort"))

\* A registration that only stores the callback and never fires it late
RegisterDisconnectCallback_StoreOnly(handle, on_disconnect, handler) ==
    /\ ProxyCall(handle)
    /\ IF handle \notin DOMAIN acl_connections_
       THEN UnknownHandle("RegisterDisconnectCallback", handle)
       ELSE /\ acl_connections_' =
                   [acl_connections_ EXCEPT ![handle].on_disconnect_callback_ = on_disconnect,
                                            ![handle].disconnect_handler_ = handler]
            /\ out' = << >>
            /\ last_op' = Op("RegisterDisconnectCallback", handle, <<on_disconnect, handler>>, "void")
            /\ UNCHANGED <<established, proxies, classicVars, leVars, cbVars, reasmVars,
                           handler_tasks, budget, crashed>>

RegisterDisconnectCallback(handle, on_disconnect, handler) ==
    /\ ProxyCall(handle)
    /\ IF handle \notin DOMAIN acl_connections_
       THEN UnknownHandle("RegisterDisconnectCallback", handle)
       ELSE LET c == [acl_connections_[handle] EXCEPT !.on_disconnect_callback_ = on_disconnect,
                                                      !.disconnect_handler_ = handler]
            IN  /\ acl_connections_' =
                       [acl_connections_ EXCEPT ![handle] =
                           IF c.is_disconnected_ THEN call_disconnect_callback(c) ELSE c]
                /\ out' = IF c.is_disconnected_ THEN <<DisconnectCallbackPost(c)>> ELSE << >>
                /\ last_op' = Op("RegisterDisconnectCallback", handle, <<on_disconnect, handler>>, "void")
                /\ UNCHANGED <<established, proxies, classicVars, leVars, cbVars, reasmVars,
                               handler_tasks, budget, crashed>>

\* History: a call of Disconnect is noted on the connection
NoteCall(name, handle) ==
    IF name = "Disconnect"
    THEN [acl_connections_ EXCEPT ![handle].hist_disconnect_called = TRUE]
    ELSE acl_connections_

\* A proxy operation that does not look at is_disconnected_
PostIfConnected_NoGoneCheck(name, task_name, handle, arg) ==
    IF handle \notin DOMAIN acl_connections_
    THEN UnknownHandle(name, handle)
    ELSE /\ handler_tasks' = Append(handler_tasks, Task(task_name, handle, arg))
         /\ out' = <<Eff("task", task_name, handle, arg)>>
         /\ last_op' = Op(name, handle, arg, TRUE)
         /\ acl_connections_' = NoteCall(name, handle)
         /\ UNCHANGED <<established, proxies, classicVars, leVars, cbVars, reasmVars, budget, crashed>>

\* The shape every boolean proxy operation has: refuse when the connection
\* is disconnected, else post the handle_* task and return true
PostIfConnected(name, task_name, handle, arg) ==
    IF handle \notin DOMAIN acl_connections_
    THEN UnknownHandle(name, handle)
    ELSE IF acl_connections_[handle].is_disconnected_
    THEN /\ out' = << >>
         /\ last_op' = Op(name, handle, arg, FALSE)
         /\ acl_connections_' = NoteCall(name, handle)
         /\ UNCHANGED <<established, proxies, classicVars, leVars, cbVars, reasmVars, handler_tasks,
                        budget, crashed>>
    ELSE /\ handler_tasks' = Append(handler_tasks, Task(task_name, handle, arg))
         /\ out' = <<Eff("task", task_name, handle, arg)>>
         /\ last_op' = Op(name, handle, arg, TRUE)
         /\ acl_connections_' = NoteCall(name, handle)
         /\ UNCHANGED <<established, proxies, classicVars, leVars, cbVars, reasmVars, budget, crashed>>

Disconnect(handle, reason) ==
    /\ ProxyCall(handle)
    /\ PostIfConnected("Disconnect", "handle_disconnect", handle, reason)

ChangeConnectionPacketType(handle, packet_type) ==
    /\ ProxyCall(handle)
    /\ PostIfConnected("ChangeConnectionPacketType", "handle_change_connection_packet_type",
                       handle, packet_type)

ReadRssi(handle) ==
    /\ ProxyCall(handle)
    /\ PostIfConnected("ReadRssi", "handle_read_rssi", handle, Null)

\* A posted task that enqueues one HCI command for a handle; some of them
\* first assert that the handle is in the table
RunCommandTask(task_name, opcode, asserts) ==
    /\ Running
    /\ NextTaskIs(task_name)
    /\ LET t == Head(handler_tasks)
       IN  IF asserts /\ t.a \notin DOMAIN acl_connections_
           THEN Abort("ASSERT acl_connections_.count(handle) == 1", Op(task_name, t.a, t.b, "abort"))
           ELSE /\ handler_tasks' = Tail(handler_tasks)
                /\ out' = <<Eff("hci", opcode, t.a, t.b)>>
                /\ last_op' = Op(task_name, t.a, t.b, "void")
                /\ UNCHANGED <<tableVars, classicVars, leVars, cbVars, reasmVars, budget, crashed>>

handle_disconnect == RunCommandTask("handle_disconnect", "DISCONNECT", TRUE)

handle_change_connection_packet_type ==
    RunCommandTask("handle_change_connection_packet_type", "CHANGE_CONNECTION_PACKET_TYPE", TRUE)

handle_read_rssi == RunCommandTask("handle_read_rssi", "READ_RSSI", FALSE)

handle_le_connection_update ==
    RunCommandTask("handle_le_connection_update", "LE_CONNECTION_UPDATE", FALSE)

\* LE connection update parameters <<conn_interval_min, conn_interval_max,
\* conn_latency, supervision_timeout>>: two valid sets and, for each bound
\* the code tests, one set just outside it
LeUpdateParams ==
    {<<6, 3200, 499, 10>>, <<3200, 6, 0, 3200>>,
     <<5, 3200, 499, 10>>, <<3201, 3200, 499, 10>>,
     <<6, 5, 499, 10>>, <<6, 3201, 499, 10>>,
     <<6, 3200, 500, 10>>,
     <<6, 3200, 499, 9>>, <<6, 3200, 499, 3201>>}

\* A validation that lets any conn_latency through
LeUpdateParamsInvalid_NoLatencyCheck(p) ==
    \/ p[1] < 6 \/ p[1] > 3200
    \/ p[2] < 6 \/ p[2] > 3200
    \/ p[4] < 10 \/ p[4] > 3200

LeUpdateParamsInvalid(p) ==
    \/ p[1] < 6 \/ p[1] > 3200
    \/ p[2] < 6 \/ p[2] > 3200
    \/ p[3] > 499
    \/ p[4] < 10 \/ p[4] > 3200

\* An update that does not look at the pending slot
LeConnectionUpdateDecision_NoPendingCheck(c, p) ==
    IF c.is_disconnected_ THEN "gone"
    ELSE IF LeUpdateParamsInvalid(p) THEN "invalid"
    ELSE "post"

\* What LeConnectionUpdate answers on a connection in the table: "gone",
\* "pending", "invalid" or "post"
LeConnectionUpdateDecision(c, p) ==
    IF c.is_disconnected_ THEN "gone"
    ELSE IF c.on_connection_update_complete_callback_ # Null THEN "pending"
    ELSE IF LeUpdateParamsInvalid(p) THEN "invalid"
    ELSE "post"

LeConnectionUpdate(handle, p, done_callback, handler) ==
    /\ ProxyCall(handle)
    /\ IF handle \notin DOMAIN acl_connections_
       THEN UnknownHandle("LeConnectionUpdate", handle)
       ELSE LET c == acl_connections_[handle]
                d == LeConnectionUpdateDecision(c, p)
            IN  /\ acl_connections_' =
                       IF d \in {"invalid", "post"}
                       THEN [acl_connections_ EXCEPT ![handle] =
                               [c EXCEPT !.on_connection_update_complete_callback_ = done_callback,
                                         !.on_connection_update_complete_callback_handler_ = handler]]
                       ELSE acl_connections_
                /\ handler_tasks' = IF d = "post"
                                    THEN Append(handler_tasks, Task("handle_le_connection_update", handle, p))
                                    ELSE handler_tasks
                /\ out' = IF d = "post" THEN <<Eff("task", "handle_le_connection_update", handle, p)>>
                                        ELSE << >>
                /\ le_updates' = IF d = "post" THEN [le_updates EXCEPT ![handle] = @ + 1] ELSE le_updates
                /\ last_op' = Op("LeConnectionUpdate", handle, <<p, done_callback, handler>>, d = "post")
                /\ UNCHANGED <<established, proxies, classicVars, connecting_le_, cbVars, reasmVars,
                               budget, crashed>>

\* LE CONNECTION_UPDATE_COMPLETE meta-event
on_le_connection_update_complete(handle, status) ==
    /\ Running
    /\ le_updates' = [le_updates EXCEPT ![handle] = 0]
    /\ last_op' = Op("on_le_connection_update_complete", handle, status, "void")
    /\ IF /\ status = "SUCCESS"
          /\ handle \in DOMAIN acl_connections_
          /\ ~acl_connections_[handle].is_disconnected_
          /\ acl_connections_[handle].on_connection_update_complete_callback_ # Null
       THEN LET c == acl_connections_[handle]
            IN  /\ out' = <<Eff("post", c.on_connection_update_complete_callback_handler_,
                                c.on_connection_update_complete_callback_, status)>>
                /\ acl_connections_' =
                       [acl_connections_ EXCEPT ![handle] =
                           [c EXCEPT !.on_connection_update_complete_callback_ = Null,
                                     !.on_connection_update_complete_callback_handler_ = Null]]
       ELSE /\ out' = << >>
            /\ UNCHANGED acl_connections_
    /\ UNCHANGED <<established, proxies, classicVars, connecting_le_, cbVars, reasmVars,
                   handler_tasks, budget, crashed>>

\* ------------------------------------------------------------------------
\* Connection management events
\* ------------------------------------------------------------------------
\* AclConnection::RegisterCallbacks: the owner of a proxy registers its
\* connection management callbacks
AclConnection_RegisterCallbacks(handle, callbacks, handler) ==
    /\ ProxyCall(handle)
    /\ IF handle \notin DOMAIN acl_connections_
       THEN UnknownHandle("AclConnection_RegisterCallbacks", handle)
       ELSE IF acl_connections_[handle].command_complete_callbacks_ # Null
       THEN Abort("ASSERT connection.command_complete_callbacks_ == nullptr",
                  Op("AclConnection_RegisterCallbacks", handle, callbacks, "abort"))
       ELSE /\ acl_connections_' =
                   [acl_connections_ EXCEPT ![handle].command_complete_callbacks_ = callbacks,
                                            ![handle].command_complete_handler_ = handler]
            /\ out' = << >>
            /\ last_op' = Op("AclConnection_RegisterCallbacks", handle, callbacks, "void")
            /\ UNCHANGED <<established, proxies, classicVars, leVars, cbVars, reasmVars,
                           handler_tasks, budget, crashed>>

\* UnregisterCallbacks of the connection proxy: clears the callbacks object
\* and leaves command_complete_handler_ as it is
AclConnection_UnregisterCallbacks(handle, callbacks) ==
    /\ ProxyCall(handle)
    /\ IF handle \notin DOMAIN acl_connections_
       THEN UnknownHandle("AclConnection_UnregisterCallbacks", handle)
       ELSE IF acl_connections_[handle].command_complete_callbacks_ # callbacks
       THEN Abort("ASSERT connection.command_complete_callbacks_ == callbacks",
                  Op("AclConnection_UnregisterCallbacks", handle, callbacks, "abort"))
       ELSE /\ acl_connections_' =
                   [acl_connections_ EXCEPT ![handle].command_complete_callbacks_ = Null]
            /\ out' = << >>
            /\ last_op' = Op("AclConnection_UnregisterCallbacks", handle, callbacks, "void")
            /\ UNCHANGED <<established, proxies, classicVars, leVars, cbVars, reasmVars,
                           handler_tasks, budget, crashed>>

\* MODE_CHANGE event.  acl_connections_.find(handle)->second on a handle that
\* is not in the table dereferences end(): undefined behaviour, the process
\* dies or what is read there passes for a null handler.
on_mode_change(valid, status, handle, current_mode, ub) ==
    /\ Running
    /\ LET op(r) == Op("on_mode_change", handle, <<valid, status, current_mode>>, r)
           quiet(r) == /\ out' = << >>
                       /\ last_op' = op(r)
                       /\ UNCHANGED <<tableVars, classicVars, leVars, cbVars, reasmVars,
                                      handler_tasks, budget, crashed>>
       IN  IF ~valid \/ status # "SUCCESS"
           THEN quiet("error")
           ELSE IF handle \notin DOMAIN acl_connections_
           THEN IF ub = "abort"
                THEN Abort("acl_connections_.find(handle) == end() dereferenced", op("abort"))
                ELSE quiet("void")
           ELSE IF acl_connections_[handle].command_complete_handler_ = Null
           THEN quiet("void")
           ELSE /\ out' = <<Eff("post", acl_connections_[handle].command_complete_handler_,
                                "OnModeChange",
                                <<acl_connections_[handle].command_complete_callbacks_, current_mode>>)>>
                /\ last_op' = op("void")
                /\ UNCHANGED <<tableVars, classicVars, leVars, cbVars, reasmVars,
                               handler_tasks, budget, crashed>>

\* The posts on_role_change makes, one for each connection in hs, in the
\* order of the table (by handle)
RECURSIVE RoleChangePosts(_, _, _)
RoleChangePosts(table, hs, new_role) ==
    IF hs = {}
    THEN << >>
    ELSE LET h == CHOOSE x \in hs : \A y \in hs : x <= y
         IN  <<Eff("post", table[h].command_complete_handler_, "OnRoleChange",
                   <<table[h].command_complete_callbacks_, new_role>>)>>
             \o RoleChangePosts(table, hs \ {h}, new_role)

\* ROLE_CHANGE event: posts to command_complete_handler_ of every connection
\* to the address, without a test for null
on_role_change(valid, status, bd_addr, new_role, ub) ==
    /\ Running
    /\ LET op(r) == Op("on_role_change", 0, <<valid, status, bd_addr, new_role>>, r)
           matching == {h \in DOMAIN acl_connections_ :
                           acl_connections_[h].address_with_type_[1] = bd_addr}
       IN  IF ~valid \/ status # "SUCCESS"
           THEN /\ out' = << >>
                /\ last_op' = op("error")
                /\ UNCHANGED <<tableVars, classicVars, leVars, cbVars, reasmVars,
                               handler_tasks, budget, crashed>>
           ELSE IF ub = "abort" /\ \E h \in matching : acl_connections_[h].command_complete_handler_ = Null
           THEN Abort("null command_complete_handler_", op("abort"))
           ELSE /\ out' = RoleChangePosts(acl_connections_, matching, new_role)
                /\ last_op' = op("void")
                /\ UNCHANGED <<tableVars, classicVars, leVars, cbVars, reasmVars,
                               handler_tasks, budget, crashed>>

\* Finish without its assertion
FinishAllowed_Always(c) == TRUE

\* Whether Finish's ASSERT_LOG lets the call through
FinishAllowed(c) == c.is_disconnected_

Finish(handle) ==
    /\ ProxyCall(handle)
    /\ IF handle \notin DOMAIN acl_connections_
       THEN UnknownHandle("Finish", handle)
       ELSE IF ~FinishAllowed(acl_connections_[handle])
       THEN Abort("ASSERT_LOG Finish must be invoked after disconnection", Op("Finish", handle, Null, "abort"))
       ELSE /\ handler_tasks' = Append(handler_tasks, Task("cleanup", handle, Null))
            /\ out' = <<Eff("sched", "Unregister", handle, Null), Eff("task", "cleanup", handle, Null)>>
            /\ last_op' = Op("Finish", handle, Null, "void")
            /\ UNCHANGED <<tableVars, classicVars, leVars, cbVars, reasmVars, budget, crashed>>

\* A cleanup that leaves the record in the table
EraseConnection_Keep(table, handle) == table

\* The table after cleanup(handle)
EraseConnection(table, handle) == [h \in DOMAIN table \ {handle} |-> table[h]]

\* ~acl_connection: the producer still registered with the inbound queue is
\* unregistered when the record is destroyed
DestroyConnection(c, handle) ==
    IF c.enqueue_registered_
    THEN <<Eff("queue", "UnregisterEnqueue", handle, Null)>>
    ELSE << >>

cleanup ==
    /\ Running
    /\ NextTaskIs("cleanup")
    /\ LET handle == Head(handler_tasks).a
       IN  IF handle \notin DOMAIN acl_connections_
           THEN Abort("ASSERT acl_connections_.count(handle) == 1", Op("cleanup", handle, Null, "abort"))
           ELSE /\ acl_connections_' = EraseConnection(acl_connections_, handle)
                /\ established' = established \ {handle}
                /\ le_updates' = [le_updates EXCEPT ![handle] = 0]
                /\ frag_log' = [frag_log EXCEPT ![handle] = << >>]
                /\ emit_log' = [emit_log EXCEPT ![handle] = << >>]
                /\ reactor' = [reactor EXCEPT ![handle] = IdleReactor]
                /\ UNCHANGED <<in_progress, moduleVars>>
                /\ handler_tasks' = Tail(handler_tasks)
                /\ out' = DestroyConnection(acl_connections_[handle], handle)
                /\ last_op' = Op("cleanup", handle, Null, "void")
                /\ UNCHANGED <<proxies, classicVars, connecting_le_, cbVars, budget, crashed>>

\* ------------------------------------------------------------------------
\* Ingress
\* ------------------------------------------------------------------------
\* A router that does not look at the validity of the fragment
Routed_IgnoreValid(table, valid, handle) ==
    /\ handle # kQualcommDebugHandle
    /\ handle \in DOMAIN table

\* Whether dequeue_and_route_acl_packet_to_connection hands the fragment to
\* a connection
Routed(table, valid, handle) ==
    /\ valid
    /\ handle # kQualcommDebugHandle
    /\ handle \in DOMAIN table

\* History of the fragments of the PDU in progress on handle
FragmentLogged(handle, flag, payload, pushed) ==
    /\ frag_log' = [frag_log EXCEPT ![handle] =
                       CASE flag = "FIRST_AUTOMATICALLY_FLUSHABLE" -> <<payload>>
                         [] flag = "CONTINUING_FRAGMENT" /\ @ # << >> -> Append(@, payload)
                         [] OTHER -> << >>]
    /\ emit_log' = [emit_log EXCEPT ![handle] =
                       CASE flag = "FIRST_AUTOMATICALLY_FLUSHABLE" -> pushed
                         [] flag = "CONTINUING_FRAGMENT" /\ frag_log[handle] # << >> -> @ \o pushed
                         [] OTHER -> << >>]

\* One wake of the ingress router: one fragment is dequeued from the HCI
\* ACL queue
dequeue_and_route_acl_packet_to_connection(valid, handle, flag, payload) ==
    /\ Running
    /\ budget' = [budget EXCEPT !.frags = @ + 1]
    /\ IF ~Routed(acl_connections_, valid, handle)
       THEN /\ out' = << >>
            /\ last_op' = Op("dequeue_and_route_acl_packet_to_connection", handle,
                            <<flag, payload, valid>>, "dropped")
            /\ UNCHANGED <<acl_connections_, reasmVars>>
       ELSE LET c == acl_connections_[handle]
                r == on_incoming_packet(c, flag, payload)
                pushes == [i \in DOMAIN r.pushed |-> Eff("push", "incoming_queue_", handle, r.pushed[i])]
            IN  /\ acl_connections_' = [acl_connections_ EXCEPT ![handle] = r.conn]
                /\ out' = pushes \o (IF r.pushed # << >> /\ ~c.enqueue_registered_
                                     THEN <<Eff("queue", "RegisterEnqueue", handle, Null)>>
                                     ELSE << >>)
                /\ last_op' = Op("dequeue_and_route_acl_packet_to_connection", handle,
                                <<flag, payload, valid>>, "routed")
                /\ FragmentLogged(handle, flag, payload, r.pushed)
                /\ UNCHANGED <<reactor, in_progress, moduleVars>>
    /\ UNCHANGED <<established, proxies, classicVars, leVars, cbVars, handler_tasks, crashed>>

\* The downstream end takes one PDU from the inbound queue; it calls only
\* while the producer is registered
on_incoming_data_ready(handle) ==
    /\ Running
    /\ handle \in DOMAIN acl_connections_
    /\ acl_connections_[handle].enqueue_registered_
    /\ LET c == acl_connections_[handle]
       IN  IF c.incoming_queue_ = << >>
           THEN Abort("front() of empty incoming_queue_", Op("on_incoming_data_ready", handle, Null, "abort"))
           ELSE LET rest == Tail(c.incoming_queue_)
                IN  /\ acl_connections_' =
                           [acl_connections_ EXCEPT ![handle] =
                               [c EXCEPT !.incoming_queue_ = rest,
                                         !.enqueue_registered_ = (rest # << >>)]]
                    /\ out' = <<Eff("deliver", "queue_", handle, Head(c.incoming_queue_))>>
                              \o (IF rest = << >> THEN <<Eff("queue", "UnregisterEnqueue", handle, Null)>>
                                                  ELSE << >>)
                    /\ last_op' = Op("on_incoming_data_ready", handle, Null, "void")
                    /\ UNCHANGED <<established, proxies, classicVars, leVars, cbVars, reasmVars,
                                   handler_tasks, budget, crashed>>

\* ------------------------------------------------------------------------
\* The inbound queue with the consumer in a context of its own: the steps of
\* on_incoming_packet (producer) and of on_incoming_data_ready (consumer),
\* each an access to incoming_queue_, an atomic exchange of
\* enqueue_registered_ or a call on the down end of the queue.
\* reactor[h].registered: the producer is registered with the down end, which
\* calls on_incoming_data_ready only while it is.
\* ------------------------------------------------------------------------
\* Whether the consumer may be at work on incoming_queue_ while the producer is
ConsumerActive(r) == r.registered \/ r.consumer # "idle"

\* Producer, lines 105-144: reassembly, the congestion test and the push.  A
\* push while the consumer may be at its pop or its emptiness test is a data
\* race on the std::queue.
on_incoming_packet_push(handle, flag, payload, ub) ==
    /\ Running
    /\ handle \in DOMAIN acl_connections_
    /\ reactor[handle].producer = "idle"
    /\ LET c == acl_connections_[handle]
           r == on_incoming_packet(c, flag, payload)
           op(ret) == Op("on_incoming_packet_push", handle, <<flag, payload>>, ret)
       IN  IF r.pushed # << >> /\ ConsumerActive(reactor[handle]) /\ ub = "abort"
           THEN Abort("data race on incoming_queue_", op("abort"))
           ELSE /\ budget' = [budget EXCEPT !.frags = @ + 1]
                /\ acl_connections_' =
                       [acl_connections_ EXCEPT ![handle] =
                           [r.conn EXCEPT !.enqueue_registered_ = c.enqueue_registered_]]
                /\ reactor' = [reactor EXCEPT ![handle].producer =
                                  IF r.pushed # << >> THEN "exchange" ELSE "idle"]
                /\ out' = [i \in DOMAIN r.pushed |-> Eff("push", "incoming_queue_", handle, r.pushed[i])]
                /\ last_op' = op(IF r.pushed # << >> THEN "pushed" ELSE "void")
                /\ FragmentLogged(handle, flag, payload, r.pushed)
                /\ UNCHANGED <<in_progress, moduleVars>>
                /\ UNCHANGED <<established, proxies, classicVars, leVars, cbVars, handler_tasks, crashed>>

\* Producer, line 145: enqueue_registered_.exchange(true)
on_incoming_packet_exchange(handle) ==
    /\ Running
    /\ handle \in DOMAIN acl_connections_
    /\ reactor[handle].producer = "exchange"
    /\ acl_connections_' = [acl_connections_ EXCEPT ![handle].enqueue_registered_ = TRUE]
    /\ reactor' = [reactor EXCEPT ![handle].producer =
                      IF acl_connections_[handle].enqueue_registered_ THEN "idle" ELSE "register"]
    /\ out' = << >>
    /\ last_op' = Op("on_incoming_packet_exchange", handle, Null,
                    IF acl_connections_[handle].enqueue_registered_ THEN "was_true" ELSE "was_false")
    /\ UNCHANGED <<established, proxies, classicVars, leVars, cbVars, frag_log, emit_log, in_progress, moduleVars,
                   handler_tasks, budget, crashed>>

\* Producer, lines 146-148: RegisterEnqueue on the down end
on_incoming_packet_register(handle) ==
    /\ Running
    /\ handle \in DOMAIN acl_connections_
    /\ reactor[handle].producer = "register"
    /\ reactor' = [reactor EXCEPT ![handle].producer = "idle", ![handle].registered = TRUE]
    /\ out' = <<Eff("queue", "RegisterEnqueue", handle, Null)>>
    /\ last_op' = Op("on_incoming_packet_register", handle, Null, "void")
    /\ UNCHANGED <<tableVars, classicVars, leVars, cbVars, frag_log, emit_log, in_progress, moduleVars, handler_tasks,
                   budget, crashed>>

\* Consumer, lines 97-98: front() and pop(), called by the down end while the
\* producer is registered.  On an empty std::queue both are undefined.
on_incoming_data_ready_pop(handle, ub) ==
    /\ Running
    /\ handle \in DOMAIN acl_connections_
    /\ reactor[handle].consumer = "idle"
    /\ reactor[handle].registered
    /\ LET c == acl_connections_[handle]
       IN  IF c.incoming_queue_ = << >>
           THEN IF ub = "abort"
                THEN Abort("front() of empty incoming_queue_",
                           Op("on_incoming_data_ready_pop", handle, Null, "abort"))
                ELSE /\ reactor' = [reactor EXCEPT ![handle].consumer = "empty"]
                     /\ out' = << >>
                     /\ last_op' = Op("on_incoming_data_ready_pop", handle, Null, "popped_empty")
                     /\ UNCHANGED <<tableVars, classicVars, leVars, cbVars, frag_log, emit_log, in_progress, moduleVars,
                                    handler_tasks, budget, crashed>>
           ELSE /\ acl_connections_' =
                       [acl_connections_ EXCEPT ![handle].incoming_queue_ = Tail(@)]
                /\ reactor' = [reactor EXCEPT ![handle].consumer = "empty"]
                /\ out' = <<Eff("deliver", "queue_", handle, Head(c.incoming_queue_))>>
                /\ last_op' = Op("on_incoming_data_ready_pop", handle, Null, "popped")
                /\ UNCHANGED <<established, proxies, classicVars, leVars, cbVars, frag_log, emit_log, in_progress, moduleVars,
                               handler_tasks, budget, crashed>>

\* Consumer, line 99: incoming_queue_.empty()
on_incoming_data_ready_empty(handle) ==
    /\ Running
    /\ handle \in DOMAIN acl_connections_
    /\ reactor[handle].consumer = "empty"
    /\ reactor' = [reactor EXCEPT ![handle].consumer =
                      IF acl_connections_[handle].incoming_queue_ = << >> THEN "exchange" ELSE "idle"]
    /\ out' = << >>
    /\ last_op' = Op("on_incoming_data_ready_empty", handle, Null,
                    IF acl_connections_[handle].incoming_queue_ = << >> THEN "empty" ELSE "more")
    /\ UNCHANGED <<tableVars, classicVars, leVars, cbVars, frag_log, emit_log, in_progress, moduleVars, handler_tasks,
                   budget, crashed>>

\* Consumer, line 99: enqueue_registered_.exchange(false)
on_incoming_data_ready_exchange(handle) ==
    /\ Running
    /\ handle \in DOMAIN acl_connections_
    /\ reactor[handle].consumer = "exchange"
    /\ acl_connections_' = [acl_connections_ EXCEPT ![handle].enqueue_registered_ = FALSE]
    /\ reactor' = [reactor EXCEPT ![handle].consumer =
                      IF acl_connections_[handle].enqueue_registered_ THEN "unregister" ELSE "idle"]
    /\ out' = << >>
    /\ last_op' = Op("on_incoming_data_ready_exchange", handle, Null,
                    IF acl_connections_[handle].enqueue_registered_ THEN "was_true" ELSE "was_false")
    /\ UNCHANGED <<established, proxies, classicVars, leVars, cbVars, frag_log, emit_log, in_progress, moduleVars,
                   handler_tasks, budget, crashed>>

\* Consumer, line 100: UnregisterEnqueue on the down end
on_incoming_data_ready_unregister(handle) ==
    /\ Running
    /\ handle \in DOMAIN acl_connections_
    /\ reactor[handle].consumer = "unregister"
    /\ reactor' = [reactor EXCEPT ![handle].consumer = "idle", ![handle].registered = FALSE]
    /\ out' = <<Eff("queue", "UnregisterEnqueue", handle, Null)>>
    /\ last_op' = Op("on_incoming_data_ready_unregister", handle, Null, "void")
    /\ UNCHANGED <<tableVars, classicVars, leVars, cbVars, frag_log, emit_log, in_progress, moduleVars, handler_tasks,
                   budget, crashed>>

\* ------------------------------------------------------------------------
\* RegisterDisconnectCallback, which a client calls on its proxy in its own
\* context, against on_disconnection_complete on the manager's handler: the
\* statements of each, one step per access to the connection record.  The
\* record has no lock, so a step taken while the other operation is under
\* way is a data race.
\* ------------------------------------------------------------------------
RacingStep(name, handle, arg, racing, ub, step) ==
    /\ Running
    /\ handle \in DOMAIN acl_connections_
    /\ IF racing /\ ub = "abort"
       THEN Abort("data race on acl_connection", Op(name, handle, arg, "abort"))
       ELSE /\ step
            /\ last_op' = Op(name, handle, arg, "void")
            /\ UNCHANGED <<established, proxies, classicVars, leVars, cbVars, frag_log, emit_log,
                           reactor, moduleVars, handler_tasks, budget, crashed>>

\* Line 1442: connection.on_disconnect_callback_ = std::move(on_disconnect)
RegisterDisconnectCallback_callback(handle, on_disconnect, handler, ub) ==
    /\ ProxyCall(handle)
    /\ in_progress[handle].registration = "idle"
    /\ in_progress[handle].calls = 0
    /\ RacingStep("RegisterDisconnectCallback_callback", handle, <<on_disconnect, handler>>,
                  in_progress[handle].disconnection # "idle", ub,
                  /\ acl_connections_' =
                         [acl_connections_ EXCEPT ![handle].on_disconnect_callback_ = on_disconnect]
                  /\ in_progress' = [in_progress EXCEPT ![handle].registration = "handler",
                                                        ![handle].on_disconnect = on_disconnect,
                                                        ![handle].handler = handler,
                                                        ![handle].calls = 1]
                  /\ out' = << >>)

\* Line 1443: connection.disconnect_handler_ = handler
RegisterDisconnectCallback_handler(handle, ub) ==
    /\ in_progress[handle].registration = "handler"
    /\ RacingStep("RegisterDisconnectCallback_handler", handle, Null,
                  in_progress[handle].disconnection # "idle", ub,
                  /\ acl_connections_' =
                         [acl_connections_ EXCEPT ![handle].disconnect_handler_ = in_progress[handle].handler]
                  /\ in_progress' = [in_progress EXCEPT ![handle].registration = "test"]
                  /\ out' = << >>)

\* Lines 1444-1446: if (connection.is_disconnected_) call_disconnect_callback()
RegisterDisconnectCallback_test(handle, ub) ==
    /\ in_progress[handle].registration = "test"
    /\ LET c == acl_connections_[handle]
       IN  RacingStep("RegisterDisconnectCallback_test", handle, Null,
                      in_progress[handle].disconnection # "idle", ub,
                      /\ acl_connections_' =
                             [acl_connections_ EXCEPT ![handle] =
                                 IF c.is_disconnected_ THEN call_disconnect_callback(c) ELSE c]
                      /\ out' = IF c.is_disconnected_ THEN <<DisconnectCallbackPost(c)>> ELSE << >>
                      /\ in_progress' = [in_progress EXCEPT
                             ![handle].registration = "idle",
                             ![handle].posted = IF c.is_disconnected_
                                                THEN Append(@, DisconnectCallbackPost(c)) ELSE @])

\* Lines 411-414 with status SUCCESS: the record is found, is_disconnected_
\* is set and SetDisconnect is posted to the scheduler
on_disconnection_complete_set(handle, reason, ub) ==
    /\ in_progress[handle].disconnection = "idle"
    /\ in_progress[handle].events = 0
    /\ RacingStep("on_disconnection_complete_set", handle, reason,
                  in_progress[handle].registration # "idle", ub,
                  /\ acl_connections_' = [acl_connections_ EXCEPT ![handle].is_disconnected_ = TRUE]
                  /\ in_progress' = [in_progress EXCEPT ![handle].disconnection = "reason",
                                                        ![handle].reason = reason,
                                                        ![handle].events = 1]
                  /\ out' = <<Eff("sched", "SetDisconnect", handle, Null)>>)

\* Line 416: acl_connection.disconnect_reason_ = disconnection_complete.GetReason()
on_disconnection_complete_reason(handle, ub) ==
    /\ in_progress[handle].disconnection = "reason"
    /\ RacingStep("on_disconnection_complete_reason", handle, Null,
                  in_progress[handle].registration # "idle", ub,
                  /\ acl_connections_' =
                         [acl_connections_ EXCEPT ![handle].disconnect_reason_ = in_progress[handle].reason]
                  /\ in_progress' = [in_progress EXCEPT ![handle].disconnection = "callback"]
                  /\ out' = << >>)

\* Line 417: acl_connection.call_disconnect_callback(); ub is the outcome of
\* a data race and of a post through a null disconnect_handler_
on_disconnection_complete_callback(handle, ub) ==
    /\ in_progress[handle].disconnection = "callback"
    /\ handle \in DOMAIN acl_connections_
    /\ LET c == acl_connections_[handle]
       IN  IF Running /\ c.disconnect_handler_ = Null /\ ub = "abort"
           THEN Abort("null disconnect_handler_",
                      Op("on_disconnection_complete_callback", handle, Null, "abort"))
           ELSE RacingStep("on_disconnection_complete_callback", handle, Null,
                           in_progress[handle].registration # "idle", ub,
                           /\ acl_connections_' =
                                  [acl_connections_ EXCEPT ![handle] = call_disconnect_callback(c)]
                           /\ out' = <<DisconnectCallbackPost(c)>>
                           /\ in_progress' = [in_progress EXCEPT
                                  ![handle].disconnection = "idle",
                                  ![handle].posted = Append(@, DisconnectCallbackPost(c))])

\* ------------------------------------------------------------------------
\* The default link policy settings and the life of the module
\* ------------------------------------------------------------------------
\* The event codes Start registers a handler for
StartEvents ==
    {"CONNECTION_COMPLETE", "DISCONNECTION_COMPLETE", "CONNECTION_REQUEST",
     "CONNECTION_PACKET_TYPE_CHANGED", "AUTHENTICATION_COMPLETE", "READ_CLOCK_OFFSET_COMPLETE",
     "MODE_CHANGE", "QOS_SETUP_COMPLETE", "ROLE_CHANGE", "FLOW_SPECIFICATION_COMPLETE",
     "FLUSH_OCCURRED", "READ_REMOTE_SUPPORTED_FEATURES_COMPLETE",
     "READ_REMOTE_EXTENDED_FEATURES_COMPLETE", "READ_REMOTE_VERSION_INFORMATION_COMPLETE",
     "LINK_SUPERVISION_TIMEOUT_CHANGED"}

\* The LE subevent codes Start registers a handler for
StartLeEvents == {"CONNECTION_COMPLETE", "ENHANCED_CONNECTION_COMPLETE", "CONNECTION_UPDATE_COMPLETE"}

\* The event codes Stop unregisters
StopEvents ==
    {"DISCONNECTION_COMPLETE", "CONNECTION_COMPLETE", "CONNECTION_REQUEST", "AUTHENTICATION_COMPLETE",
     "READ_REMOTE_SUPPORTED_FEATURES_COMPLETE", "READ_REMOTE_EXTENDED_FEATURES_COMPLETE"}

\* Values of the 16-bit settings word
PolicySettings == {0, 5, 7}

\* Runs in the caller's context: stores the value, then posts the task that
\* sends the command
WriteDefaultLinkPolicySettings(default_link_policy_settings) ==
    /\ Running
    /\ started
    /\ Len(handler_tasks) < MaxTasks
    /\ default_link_policy_settings_' = default_link_policy_settings
    /\ link_policy' = [link_policy EXCEPT !.written = <<default_link_policy_settings>>]
    /\ handler_tasks' = Append(handler_tasks, Task("write_default_link_policy_settings", Null,
                                                   default_link_policy_settings))
    /\ out' = <<Eff("task", "write_default_link_policy_settings", Null, default_link_policy_settings)>>
    /\ last_op' = Op("WriteDefaultLinkPolicySettings", 0, default_link_policy_settings, "void")
    /\ UNCHANGED <<tableVars, classicVars, leVars, cbVars, frag_log, emit_log, reactor, in_progress,
                   event_handlers, started, budget, crashed>>

write_default_link_policy_settings ==
    /\ started
    /\ RunCommandTask("write_default_link_policy_settings", "WRITE_DEFAULT_LINK_POLICY_SETTINGS", FALSE)

\* Runs in the caller's context
ReadDefaultLinkPolicySettings ==
    /\ Running
    /\ started
    /\ out' = << >>
    /\ last_op' = Op("ReadDefaultLinkPolicySettings", 0, Null, default_link_policy_settings_)
    /\ UNCHANGED <<tableVars, classicVars, leVars, cbVars, reasmVars, handler_tasks, budget, crashed>>

\* Command complete of the Read-Default-Link-Policy-Settings command that
\* Start issued; settings is what the controller held when it ran the command
on_read_default_link_policy_settings_complete(valid, status, settings) ==
    /\ Running
    /\ started
    /\ link_policy.read_outstanding
    /\ link_policy' = [link_policy EXCEPT !.read_outstanding = FALSE]
    /\ default_link_policy_settings_' =
           IF valid /\ status = "SUCCESS" THEN settings ELSE default_link_policy_settings_
    /\ out' = << >>
    /\ last_op' = Op("on_read_default_link_policy_settings_complete", 0, <<valid, status, settings>>,
                     IF valid /\ status = "SUCCESS" THEN "void" ELSE "error")
    /\ UNCHANGED <<tableVars, classicVars, leVars, cbVars, frag_log, emit_log, reactor, in_progress,
                   event_handlers, started, handler_tasks, budget, crashed>>

\* What destroying the records in hs does, in the order of the table
RECURSIVE DestroyConnections(_, _)
DestroyConnections(table, hs) ==
    IF hs = {}
    THEN << >>
    ELSE LET h == CHOOSE x \in hs : \A y \in hs : x <= y
         IN  DestroyConnection(table[h], h) \o DestroyConnections(table, hs \ {h})

\* Stop: unregisters event handlers and the dequeue callback, deletes the
\* scheduler and clears the table
Stop ==
    /\ Running
    /\ started
    /\ event_handlers' = [event_handlers EXCEPT !.events = @ \ StopEvents, !.dequeue = FALSE]
    /\ started' = FALSE
    /\ acl_connections_' = << >>
    /\ established' = {}
    /\ le_updates' = [h \in Handles |-> 0]
    /\ frag_log' = [h \in Handles |-> << >>]
    /\ emit_log' = [h \in Handles |-> << >>]
    /\ reactor' = [h \in Handles |-> IdleReactor]
    /\ out' = <<Eff("queue", "UnregisterDequeue", Null, Null)>>
              \o DestroyConnections(acl_connections_, DOMAIN acl_connections_)
    /\ last_op' = Op("Stop", 0, Null, "void")
    /\ UNCHANGED <<proxies, classicVars, connecting_le_, cbVars, in_progress,
                   default_link_policy_settings_, link_policy, handler_tasks, budget, crashed>>

\* ------------------------------------------------------------------------
\* Specifications
\* ------------------------------------------------------------------------
Init ==
    /\ acl_connections_ = << >>
    /\ connecting_ = {}
    /\ connecting_le_ = {}
    /\ pending_outgoing_connections_ = << >>
    /\ client_callbacks_ = [callbacks |-> Null, handler |-> Null]
    /\ le_client_callbacks_ = [callbacks |-> Null, handler |-> Null]
    /\ handler_tasks = << >>
    /\ out = << >>
    /\ last_op = Op("Start", 0, Null, "void")
    /\ crashed = "no"
    /\ frag_log = [h \in Handles |-> << >>]
    /\ emit_log = [h \in Handles |-> << >>]
    /\ reactor = [h \in Handles |-> IdleReactor]
    /\ in_progress = [h \in Handles |-> NothingInProgress]
    /\ default_link_policy_settings_ = 0
    /\ link_policy = [read_outstanding |-> TRUE, written |-> << >>]
    /\ event_handlers = [events |-> StartEvents, le_events |-> StartLeEvents, dequeue |-> TRUE]
    /\ started = TRUE
    /\ budget = [frags |-> 0, requests |-> 0, registered |-> FALSE, le_registered |-> FALSE]
    /\ in_flight = {}
    /\ incoming_owed = {}
    /\ established = {}
    /\ le_updates = [h \in Handles |-> 0]
    /\ proxies = {}

ManagerRegistration ==
    \/ RegisterCallbacks("client_callbacks", "client_handler")
    \/ handle_register_callbacks
    \/ RegisterLeCallbacks("le_client_callbacks", "le_client_handler")
    \/ handle_register_le_callbacks

CreateClassic(A) ==
    \/ \E address \in A : CreateConnection(address)
    \/ create_connection

IncomingClassic(A, H) ==
    \/ \E address \in A : on_incoming_connection(address)
    \/ \E attempt \in in_flight \cup incoming_owed, status \in ErrorCodes, handle \in H,
          ub \in UBOutcomes : on_connection_complete(attempt, status, handle, ub)

LeConnect(A, H) ==
    \/ \E awt \in A, status \in ErrorCodes, handle \in H, ub \in UBOutcomes :
          on_le_connection_complete(awt, status, handle, ub)
    \/ \E awt \in A, rpa \in {kEmptyAddress, "77:77:77:77:77:77"}, status \in ErrorCodes,
          handle \in H, ub \in UBOutcomes :
          on_le_enhanced_connection_complete(awt, rpa, status, handle, ub)

Teardown(H, R, Rs) ==
    \/ \E handle \in H, status \in ErrorCodes, reason \in Rs, ub \in UBOutcomes :
          on_disconnection_complete(handle, status, reason, ub)
    \/ \E handle \in H, r \in R : RegisterDisconnectCallback(handle, r[1], r[2])
    \/ \E handle \in H : Finish(handle)
    \/ cleanup

Commands(H) ==
    \/ \E handle \in H, reason \in Reasons : Disconnect(handle, reason)
    \/ handle_disconnect
    \/ \E handle \in H : ChangeConnectionPacketType(handle, kPacketType)
    \/ handle_change_connection_packet_type
    \/ \E handle \in H : ReadRssi(handle)
    \/ handle_read_rssi
    \/ \E handle \in H, p \in LeUpdateParams, r \in Registrations :
          LeConnectionUpdate(handle, p, r[1], r[2])
    \/ handle_le_connection_update
    \/ \E handle \in H, status \in ErrorCodes : on_le_connection_update_complete(handle, status)

\* The HCI ACL queue delivers at most limit fragments, with starting
\* payloads from firsts and continuing payloads from conts
IngressOf(H, firsts, conts, limit) ==
    \/ /\ budget.frags < limit
       /\ \E valid \in BOOLEAN, handle \in H, payload \in firsts :
             dequeue_and_route_acl_packet_to_connection(valid, handle, "FIRST_AUTOMATICALLY_FLUSHABLE", payload)
    \/ /\ budget.frags < limit
       /\ \E valid \in BOOLEAN, handle \in H, payload \in conts :
             dequeue_and_route_acl_packet_to_connection(valid, handle, "CONTINUING_FRAGMENT", payload)
    \/ /\ budget.frags < limit
       /\ \E valid \in BOOLEAN, handle \in H :
             dequeue_and_route_acl_packet_to_connection(valid, handle, "FIRST_NON_AUTOMATICALLY_FLUSHABLE", << >>)
    \/ \E handle \in H : on_incoming_data_ready(handle)

Ingress(H) == IngressOf(H, FirstPayloads, DataSeqs, MaxFrags)

\* The connection table over the life of the links: connection, disconnection,
\* Finish and cleanup, on every handle
Next ==
    \/ ManagerRegistration
    \/ IncomingClassic({"AA:AA:AA:AA:AA:AA"}, Handles)
    \/ LeConnect({LePeer}, Handles)
    \/ Teardown(Handles, {<<"callback_1", "user_handler_1">>}, {"CONNECTION_TIMEOUT"})

Spec == Init /\ [][Next]_vars

\* The operations of the proxy of one connection
NextConnection ==
    \/ RegisterLeCallbacks("le_client_callbacks", "le_client_handler")
    \/ handle_register_le_callbacks
    \/ \E status \in ErrorCodes, ub \in UBOutcomes : on_le_connection_complete(LePeer, status, 1, ub)
    \/ Teardown({1}, Registrations, Reasons)
    \/ Commands({1})

SpecConnection == Init /\ [][NextConnection]_vars

\* The Classic connection pipeline
NextClassic ==
    \/ RegisterCallbacks("client_callbacks", "client_handler")
    \/ handle_register_callbacks
    \/ CreateClassic(Addresses)
    \/ IncomingClassic(Addresses, Handles)

SpecClassic == Init /\ [][NextClassic]_vars

\* The Classic connection pipeline with the command status of each accepted
\* request
NextAccept ==
    \/ NextClassic
    \/ \E address \in Addresses, status \in ErrorCodes : on_accept_connection_status(address, status)

SpecAccept == Init /\ [][NextAccept]_vars

\* The inbound queue over the life of one LE link: PDUs arrive and are
\* taken, the link is disconnected and its record cleaned up
NextQueueLife ==
    \/ RegisterLeCallbacks("le_client_callbacks", "le_client_handler")
    \/ handle_register_le_callbacks
    \/ on_le_connection_complete(LePeer, "SUCCESS", 1, "abort")
    \/ Teardown({1}, {<<"callback_1", "user_handler_1">>}, {"CONNECTION_TIMEOUT"})
    \/ IngressOf({1}, {Header(0), Header(1)}, {<<170>>}, MaxFrags)

SpecQueueLife == Init /\ [][NextQueueLife]_vars

\* One LE link whose consumer runs in a context of its own
NextQueueRace ==
    \/ RegisterLeCallbacks("le_client_callbacks", "le_client_handler")
    \/ handle_register_le_callbacks
    \/ on_le_connection_complete(LePeer, "SUCCESS", 1, "abort")
    \/ /\ budget.frags < MaxFrags
       /\ \E flag \in {"FIRST_AUTOMATICALLY_FLUSHABLE", "CONTINUING_FRAGMENT"},
             payload \in {Header(0), Header(1), <<170>>}, ub \in UBOutcomes :
             on_incoming_packet_push(1, flag, payload, ub)
    \/ on_incoming_packet_exchange(1)
    \/ on_incoming_packet_register(1)
    \/ \E ub \in UBOutcomes : on_incoming_data_ready_pop(1, ub)
    \/ on_incoming_data_ready_empty(1)
    \/ on_incoming_data_ready_exchange(1)
    \/ on_incoming_data_ready_unregister(1)

SpecQueueRace == Init /\ [][NextQueueRace]_vars

\* One registration of a disconnect callback and one disconnection on each
\* LE link, statement by statement
NextDisconnectRace ==
    \/ RegisterLeCallbacks("le_client_callbacks", "le_client_handler")
    \/ handle_register_le_callbacks
    \/ \E handle \in Handles : on_le_connection_complete(LePeer, "SUCCESS", handle, "abort")
    \/ \E handle \in Handles, r \in Registrations, ub \in UBOutcomes :
          RegisterDisconnectCallback_callback(handle, r[1], r[2], ub)
    \/ \E handle \in Handles, ub \in UBOutcomes : RegisterDisconnectCallback_handler(handle, ub)
    \/ \E handle \in Handles, ub \in UBOutcomes : RegisterDisconnectCallback_test(handle, ub)
    \/ \E handle \in Handles, reason \in Reasons, ub \in UBOutcomes :
          on_disconnection_complete_set(handle, reason, ub)
    \/ \E handle \in Handles, ub \in UBOutcomes : on_disconnection_complete_reason(handle, ub)
    \/ \E handle \in Handles, ub \in UBOutcomes : on_disconnection_complete_callback(handle, ub)

SpecDisconnectRace == Init /\ [][NextDisconnectRace]_vars

\* The LE connection pipeline: requests of the client and the two
\* connection-complete events of the controller
LeAddresses == {LePeer, <<"BB:BB:BB:BB:BB:BB", "RANDOM_DEVICE_ADDRESS">>}

NextLeConnect ==
    \/ RegisterLeCallbacks("le_client_callbacks", "le_client_handler")
    \/ handle_register_le_callbacks
    \/ \E awt \in LeAddresses : CreateLeConnection(awt)
    \/ \E extended \in BOOLEAN : create_le_connection(extended)
    \/ LeConnect(LeAddresses, Handles)

SpecLeConnect == Init /\ [][NextLeConnect]_vars

\* The module from Start to Stop, and its default link policy settings
NextModule ==
    \/ \E settings \in PolicySettings : WriteDefaultLinkPolicySettings(settings)
    \/ write_default_link_policy_settings
    \/ ReadDefaultLinkPolicySettings
    \/ \E valid \in BOOLEAN, status \in ErrorCodes, settings \in PolicySettings :
          on_read_default_link_policy_settings_complete(valid, status, settings)
    \/ Stop

SpecModule == Init /\ [][NextModule]_vars

\* Ingress and reassembly on one LE link; handle 2 stays unknown
NextReassembly ==
    \/ RegisterLeCallbacks("le_client_callbacks", "le_client_handler")
    \/ handle_register_le_callbacks
    \/ on_le_connection_complete(LePeer, "SUCCESS", 1, "abort")
    \/ Ingress({1, 2, kQualcommDebugHandle})

SpecReassembly == Init /\ [][NextReassembly]_vars

\* Two LE links and an unknown handle at the ingress router
NextIngress ==
    \/ RegisterLeCallbacks("le_client_callbacks", "le_client_handler")
    \/ handle_register_le_callbacks
    \/ \E handle \in Handles : on_le_connection_complete(LePeer, "SUCCESS", handle, "abort")
    \/ IngressOf({1, 2, 3, kQualcommDebugHandle}, {Header(0), Header(1)}, {<< >>, <<170>>}, MaxFrags)

SpecIngress == Init /\ [][NextIngress]_vars

\* One LE link whose consumer may fall behind: complete PDUs arrive until the
\* inbound queue is full
NextBackpressure ==
    \/ RegisterLeCallbacks("le_client_callbacks", "le_client_handler")
    \/ handle_register_le_callbacks
    \/ on_le_connection_complete(LePeer, "SUCCESS", 1, "abort")
    \/ IngressOf({1}, {Header(0)}, {<< >>}, MaxQueueFrags)

SpecBackpressure == Init /\ [][NextBackpressure]_vars

\* Events that name a connection, on one Classic link; handle 2 stays unknown
ManagementEvents(H, A) ==
    \/ \E handle \in H : AclConnection_RegisterCallbacks(handle, "management_callbacks", "management_handler")
    \/ \E valid \in BOOLEAN, status \in ErrorCodes, handle \in H, ub \in UBOutcomes :
          on_mode_change(valid, status, handle, "SNIFF", ub)
    \/ \E valid \in BOOLEAN, status \in ErrorCodes, address \in A, ub \in UBOutcomes :
          on_role_change(valid, status, address, "SLAVE", ub)
    \/ \E handle \in H, status \in ErrorCodes : on_le_connection_update_complete(handle, status)

NextEvents ==
    \/ RegisterCallbacks("client_callbacks", "client_handler")
    \/ handle_register_callbacks
    \/ IncomingClassic(Addresses, {1})
    \/ Teardown(Handles, {<<"callback_1", "user_handler_1">>}, {"CONNECTION_TIMEOUT"})
    \/ ManagementEvents(Handles, Addresses)

SpecEvents == Init /\ [][NextEvents]_vars

\* The controller's events and the registration and unregistration of the
\* management callbacks of a connection
NextUnregister ==
    \/ NextEvents
    \/ \E handle \in Handles : AclConnection_UnregisterCallbacks(handle, "management_callbacks")

SpecUnregister == Init /\ [][NextUnregister]_vars

\* ------------------------------------------------------------------------
\* Properties
\* ------------------------------------------------------------------------
RECURSIVE Concat(_)
Concat(payloads) ==
    IF payloads = << >> THEN << >> ELSE Head(payloads) \o Concat(Tail(payloads))

\* The L2CAP length a starting fragment declares
DeclaredLength(first) == first[1] + 256 * first[2]

\* The fragments since the last FIRST on h leave a PDU unfinished
PduInProgress(h) ==
    /\ frag_log[h] # << >>
    /\ Len(frag_log[h][1]) >= 4
    /\ Len(Concat(frag_log[h])) < DeclaredLength(frag_log[h][1]) + 4

\* The fragments since the last FIRST on h are a FIRST and CONTINUING
\* fragments whose sizes sum to the declared length + 4
PduComplete(h) ==
    /\ frag_log[h] # << >>
    /\ Len(frag_log[h][1]) >= 4
    /\ Len(Concat(frag_log[h])) = DeclaredLength(frag_log[h][1]) + 4

IsStep(name, h) == last_op'.op = name /\ last_op'.handle = h /\ crashed' = "no"

BooleanOps == {"Disconnect", "ChangeConnectionPacketType", "ReadRssi", "LeConnectionUpdate"}

\* C1: for a FIRST fragment followed by CONTINUING fragments whose sizes sum
\* to the declared L2CAP length + 4, nothing is emitted before the last
\* fragment and exactly one PDU, the concatenation of the payloads in
\* arrival order, is emitted when it arrives.
C1_ExactlyOnePduPerSequence ==
    \A h \in DOMAIN acl_connections_ :
        /\ PduInProgress(h) => emit_log[h] = << >>
        /\ PduComplete(h) => emit_log[h] = <<Concat(frag_log[h])>>

\* C2: a CONTINUING fragment that arrives while no PDU is in progress puts
\* nothing on the inbound queue and leaves the recombination buffer empty
\* and remaining_sdu_continuation_packet_size_ at 0.
C2_StrayContinuationDropped ==
    [][\A h \in DOMAIN acl_connections_ :
          (/\ IsStep("dequeue_and_route_acl_packet_to_connection", h)
           /\ last_op'.ret = "routed"
           /\ last_op'.arg[1] = "CONTINUING_FRAGMENT"
           /\ ~PduInProgress(h))
          => /\ acl_connections_'[h].incoming_queue_ = acl_connections_[h].incoming_queue_
             /\ acl_connections_'[h].recombination_stage_ = << >>
             /\ acl_connections_'[h].remaining_sdu_continuation_packet_size_ = 0]_vars

\* C3: a boolean proxy operation issued on a connection whose
\* is_disconnected_ is true returns false, posts no task and enqueues no
\* HCI command.
C3_DisconnectedOpsRefused ==
    [][\A h \in DOMAIN acl_connections_ :
          (/\ acl_connections_[h].is_disconnected_
           /\ last_op'.op \in BooleanOps
           /\ last_op'.handle = h)
          => /\ last_op'.ret = FALSE
             /\ out' = << >>
             /\ handler_tasks' = handler_tasks
             /\ crashed' = "no"]_vars

C3_Witness ==
    \E h \in DOMAIN acl_connections_ :
        /\ acl_connections_[h].is_disconnected_
        /\ last_op.op = "Disconnect"
        /\ last_op.handle = h
        /\ last_op.ret = FALSE

\* C4: a create_connection that finds connecting_ non-empty queues the
\* request and sends nothing, and whenever a Create-Connection command is
\* issued no request made earlier is still queued.
C4_QueuedAndFifo ==
    [][/\ (IsStep("create_connection", 0) /\ connecting_ # {})
          => /\ HciCommands(out') = << >>
             /\ Len(pending_outgoing_connections_') = Len(pending_outgoing_connections_) + 1
       /\ \A i \in DOMAIN out', j \in DOMAIN pending_outgoing_connections_' :
             (out'[i].k = "hci" /\ out'[i].op = "CREATE_CONNECTION")
             => pending_outgoing_connections_'[j].id > out'[i].b]_vars

\* C5: at most one outbound Create-Connection command is in flight.
C5_OneCreateConnectionInFlight == Cardinality(in_flight) <= 1

\* C6: RegisterDisconnectCallback on a connection that is already
\* disconnected posts the callback once, at once, to the handler of this
\* registration, with the stored disconnect reason.
C6_LateRegistrationFires ==
    [][\A h \in DOMAIN acl_connections_ :
          (/\ acl_connections_[h].is_disconnected_
           /\ IsStep("RegisterDisconnectCallback", h))
          => out' = <<Eff("post", last_op'.arg[2], last_op'.arg[1],
                          acl_connections_[h].disconnect_reason_)>>]_vars

C6_Witness ==
    \E h \in DOMAIN acl_connections_ :
        /\ acl_connections_[h].is_disconnected_
        /\ last_op.op = "RegisterDisconnectCallback"
        /\ last_op.handle = h
        /\ Len(out) = 1
        /\ out[1].k = "post"
        /\ out[1].b \in Reasons

UpdateSlot(c) ==
    <<c.on_connection_update_complete_callback_, c.on_connection_update_complete_callback_handler_>>

\* C7: while an LE connection update is pending on a handle, another
\* LeConnectionUpdate on it returns false, posts nothing and leaves the
\* slot as it is; at most one update is in flight per handle.
C7_SinglePendingUpdate ==
    [][/\ \A h \in DOMAIN acl_connections_ :
             (/\ acl_connections_[h].on_connection_update_complete_callback_ # Null
              /\ IsStep("LeConnectionUpdate", h))
             => /\ last_op'.ret = FALSE
                /\ out' = << >>
                /\ handler_tasks' = handler_tasks
                /\ UpdateSlot(acl_connections_'[h]) = UpdateSlot(acl_connections_[h])
       /\ \A h \in Handles : le_updates'[h] <= 1]_vars

C7_Witness ==
    \E h \in DOMAIN acl_connections_ :
        /\ last_op.op = "LeConnectionUpdate"
        /\ last_op.handle = h
        /\ last_op.ret = FALSE
        /\ ~LeUpdateParamsInvalid(last_op.arg[1])
        /\ ~acl_connections_[h].is_disconnected_
        /\ le_updates[h] = 1
        /\ acl_connections_[h].on_connection_update_complete_callback_ \notin {Null, last_op.arg[2]}

\* C8: once Disconnect has been called on a connection, every further
\* Disconnect on it returns false and posts no handle_disconnect.
C8_DisconnectIdempotent ==
    [][\A h \in DOMAIN acl_connections_ :
          (/\ acl_connections_[h].hist_disconnect_called
           /\ IsStep("Disconnect", h))
          => /\ last_op'.ret = FALSE
             /\ out' = << >>]_vars

\* C9: Finish on a connection that is not disconnected fails its assertion:
\* no Unregister and no cleanup is posted and the table is unchanged.
C9_FinishBeforeDisconnectAborts ==
    [][\A h \in DOMAIN acl_connections_ :
          (/\ ~acl_connections_[h].is_disconnected_
           /\ last_op'.op = "Finish"
           /\ last_op'.handle = h)
          => /\ crashed' # "no"
             /\ out' = << >>
             /\ handler_tasks' = handler_tasks
             /\ acl_connections_' = acl_connections_]_vars

C9_Witness ==
    /\ crashed = "ASSERT_LOG Finish must be invoked after disconnection"
    /\ last_op.op = "Finish"
    /\ last_op.handle \in DOMAIN acl_connections_
    /\ ~acl_connections_[last_op.handle].is_disconnected_

C11_ConnectionRequestReply ==
    [][last_op'.op = "on_incoming_connection" =>
          LET address == last_op'.arg
              linked == \E h \in DOMAIN acl_connections_ :
                            acl_connections_[h].address_with_type_[1] = address
              reject(reason) == <<[k |-> "hci", op |-> "REJECT_CONNECTION_REQUEST",
                                   a |-> address, b |-> reason]>>
          IN  /\ crashed' = "no"
              /\ out' = IF client_callbacks_.callbacks = Null THEN reject("LIMITED_RESOURCES")
                        ELSE IF linked THEN reject("UNACCEPTABLE_BD_ADDR")
                        ELSE IF should_accept_connection_(address)
                        THEN <<[k |-> "hci", op |-> "ACCEPT_CONNECTION_REQUEST",
                                a |-> address, b |-> "BECOME_MASTER"]>>
                        ELSE reject("LIMITED_RESOURCES")]_vars

C11_Witness ==
    /\ last_op.op = "on_incoming_connection"
    /\ client_callbacks_.callbacks # Null
    /\ \E h \in DOMAIN acl_connections_ : acl_connections_[h].address_with_type_[1] = last_op.arg
    /\ out = <<Eff("hci", "REJECT_CONNECTION_REQUEST", last_op.arg, "UNACCEPTABLE_BD_ADDR")>>

\* The handlers the controller's events and fragments run
ControllerEvents ==
    {"on_incoming_connection", "on_connection_complete", "on_le_connection_complete",
     "on_le_enhanced_connection_complete", "on_disconnection_complete", "on_mode_change",
     "on_role_change", "on_le_connection_update_complete",
     "dequeue_and_route_acl_packet_to_connection"}

\* C12: no handler of a controller event fails an assertion or uses a null
\* handler, whatever events the controller delivers.
C12_NoPanicOnControllerInput == ~(crashed # "no" /\ last_op.op \in ControllerEvents)

\* C13: an event other than a connection-complete whose handle is not in
\* the table is ignored: nothing is posted, nothing changes, nothing fails.
C13_UnknownHandleEventIgnored ==
    [][(/\ last_op'.op \in {"on_disconnection_complete", "on_mode_change",
                            "on_le_connection_update_complete"}
        /\ last_op'.handle \notin DOMAIN acl_connections_)
       => /\ crashed' = "no"
          /\ out' = << >>
          /\ UNCHANGED <<acl_connections_, connecting_, connecting_le_,
                         pending_outgoing_connections_, cbVars, handler_tasks>>]_vars

\* C14: DISCONNECTION_COMPLETE with status SUCCESS for a handle in the table
\* sets is_disconnected_, stores the reason, posts SetDisconnect to the
\* scheduler and posts the disconnect callback with the reason; with another
\* status it posts nothing and leaves the record as it is.
C14_DisconnectionComplete ==
    [][\A h \in DOMAIN acl_connections_ :
          (last_op'.op = "on_disconnection_complete" /\ last_op'.handle = h)
          => IF last_op'.arg[1] = "SUCCESS"
             THEN /\ crashed' = "no"
                  /\ acl_connections_'[h].is_disconnected_
                  /\ acl_connections_'[h].disconnect_reason_ = last_op'.arg[2]
                  /\ out' = <<Eff("sched", "SetDisconnect", h, Null),
                              Eff("post", acl_connections_[h].disconnect_handler_,
                                  acl_connections_[h].on_disconnect_callback_, last_op'.arg[2])>>
             ELSE /\ crashed' = "no"
                  /\ out' = << >>
                  /\ acl_connections_' = acl_connections_]_vars

\* C15: the inbound queue of a connection never holds more than
\* kMaxQueuedPacketsPerConnection PDUs.
C15_InboundQueueBounded ==
    \A h \in DOMAIN acl_connections_ :
        Len(acl_connections_[h].incoming_queue_) <= kMaxQueuedPacketsPerConnection

\* C16: a wake of the ingress router takes one fragment; an invalid fragment
\* and one for handle 0xEDC or for a handle that is not in the table change
\* no connection, any other changes at most the connection it names.
C16_RouterFrame ==
    [][last_op'.op = "dequeue_and_route_acl_packet_to_connection" =>
          LET h == last_op'.handle
              valid == last_op'.arg[3]
          IN  /\ crashed' = "no"
              /\ budget'.frags = budget.frags + 1
              /\ DOMAIN acl_connections_' = DOMAIN acl_connections_
              /\ (~valid \/ h = 3804 \/ h \notin DOMAIN acl_connections_)
                     => acl_connections_' = acl_connections_
              /\ \A g \in DOMAIN acl_connections_ \ {h} :
                     acl_connections_'[g] = acl_connections_[g]]_vars

C16_Witness ==
    /\ DOMAIN acl_connections_ = {1, 2}
    /\ last_op.op = "dequeue_and_route_acl_packet_to_connection"
    /\ last_op.handle = 1
    /\ last_op.arg[3]
    /\ acl_connections_[1].incoming_queue_ # << >>
    /\ acl_connections_[2].recombination_stage_ # << >>

\* C17: a successful LE_ENHANCED_CONNECTION_COMPLETE stores and reports the
\* peer resolvable address with type RANDOM_DEVICE_ADDRESS when that address
\* is not empty, else the peer address with its type; a successful
\* LE_CONNECTION_COMPLETE always stores and reports the peer address with
\* its type.
C17_LeReportedAddress ==
    [][(/\ last_op'.op \in {"on_le_connection_complete", "on_le_enhanced_connection_complete"}
        /\ last_op'.arg[2] = "SUCCESS"
        /\ crashed' = "no")
       => LET h == last_op'.handle
              peer == last_op'.arg[3]
              expected == IF last_op'.op = "on_le_connection_complete" THEN peer
                          ELSE IF last_op'.arg[4] # "00:00:00:00:00:00"
                          THEN <<last_op'.arg[4], "RANDOM_DEVICE_ADDRESS">>
                          ELSE peer
          IN  /\ h \in DOMAIN acl_connections_'
              /\ acl_connections_'[h].address_with_type_ = expected
              /\ Len(out') = 2
              /\ out'[2].k = "post"
              /\ out'[2].op = le_client_callbacks_.handler
              /\ out'[2].a = "OnLeConnectSuccess"
              /\ out'[2].b = <<expected, h>>]_vars

C17_Witness ==
    /\ last_op.op = "on_le_enhanced_connection_complete"
    /\ last_op.ret = "success"
    /\ last_op.arg[3] = LePeer
    /\ last_op.arg[4] = "77:77:77:77:77:77"
    /\ le_client_callbacks_.handler # Null
    /\ acl_connections_[last_op.handle].address_with_type_ = <<"77:77:77:77:77:77", "RANDOM_DEVICE_ADDRESS">>
    /\ out[2].b[1] = <<"77:77:77:77:77:77", "RANDOM_DEVICE_ADDRESS">>

\* C18: a connection-complete event with a status other than SUCCESS posts
\* one connect-fail callback with the address and the status, takes the
\* address out of the connecting set, adds no connection and posts no
\* scheduler Register.
C18_ConnectFailReported ==
    [][(/\ last_op'.op \in {"on_connection_complete", "on_le_connection_complete",
                            "on_le_enhanced_connection_complete"}
        /\ last_op'.arg[2] # "SUCCESS")
       => LET classic == last_op'.op = "on_connection_complete"
              address == last_op'.arg[1]
          IN  /\ crashed' = "no"
              /\ out' = <<Eff("post",
                              IF classic THEN client_callbacks_.handler ELSE le_client_callbacks_.handler,
                              IF classic THEN "OnConnectFail" ELSE "OnLeConnectFail",
                              <<address, last_op'.arg[2]>>)>>
              /\ IF classic THEN address \notin connecting_' ELSE address \notin connecting_le_'
              /\ acl_connections_' = acl_connections_]_vars

\* C19: LeConnectionUpdate with conn_interval_min or conn_interval_max outside
\* 0x0006..0x0C80, conn_latency above 0x01F3 or supervision_timeout outside
\* 0x000A..0x0C80 returns false and posts nothing; with all four in range, on
\* a live connection with no update pending, it returns true and posts one
\* handle_le_connection_update, which enqueues one LE_CONNECTION_UPDATE.
C19_LeUpdateValidation ==
    [][/\ \A h \in DOMAIN acl_connections_ :
             (last_op'.op = "LeConnectionUpdate" /\ last_op'.handle = h)
             => LET p == last_op'.arg[1]
                    in_range == /\ p[1] \in 6..3200
                                /\ p[2] \in 6..3200
                                /\ p[3] \in 0..499
                                /\ p[4] \in 10..3200
                    task == [t |-> "handle_le_connection_update", a |-> h, b |-> p]
                IN  /\ ~in_range => /\ last_op'.ret = FALSE
                                    /\ out' = << >>
                                    /\ handler_tasks' = handler_tasks
                    /\ (/\ in_range
                        /\ ~acl_connections_[h].is_disconnected_
                        /\ acl_connections_[h].on_connection_update_complete_callback_ = Null)
                       => /\ last_op'.ret = TRUE
                          /\ handler_tasks' = Append(handler_tasks, task)
                          /\ Len(out') = 1
                          /\ out'[1].k = "task"
       /\ last_op'.op = "handle_le_connection_update"
             => out' = <<[k |-> "hci", op |-> "LE_CONNECTION_UPDATE",
                          a |-> last_op'.handle, b |-> last_op'.arg]>>]_vars

C19_Witness ==
    \E h \in DOMAIN acl_connections_ :
        /\ last_op.op = "LeConnectionUpdate"
        /\ last_op.handle = h
        /\ last_op.ret = FALSE
        /\ last_op.arg[1][3] = 500
        /\ ~acl_connections_[h].is_disconnected_
        /\ le_updates[h] = 0
        /\ handler_tasks = << >>

\* The operations of a connection proxy
ProxyOps == BooleanOps \cup {"RegisterDisconnectCallback", "Finish", "AclConnection_RegisterCallbacks"}

\* C20: after cleanup has removed the record of a handle, an operation of
\* its proxy returns without failing, posts nothing and changes nothing.
C20_StaleHandleGraceful ==
    [][(/\ last_op'.op \in ProxyOps
        /\ last_op'.handle \in proxies
        /\ last_op'.handle \notin DOMAIN acl_connections_)
       => /\ crashed' = "no"
          /\ out' = << >>
          /\ UNCHANGED <<acl_connections_, handler_tasks>>]_vars

\* C21: every Classic CONNECTION_COMPLETE, successful or not, drains the
\* queue of pending outgoing requests: the entries up to and including the
\* first one whose peer is not connected leave the queue, and that entry's
\* Create-Connection command (at most one) is issued.
C21_DrainOnEveryComplete ==
    [][(last_op'.op = "on_connection_complete" /\ crashed' = "no")
       => LET drain == DrainPending(pending_outgoing_connections_, acl_connections_')
              created == SelectSeq(out', LAMBDA e : e.k = "hci" /\ e.op = "CREATE_CONNECTION")
          IN  /\ pending_outgoing_connections_' = drain.pending
              /\ Len(created) = Len(drain.issued)
              /\ \A i \in DOMAIN created : /\ created[i].a = drain.issued[i].address
                                           /\ created[i].b = drain.issued[i].id]_vars

\* A step of the ingress router that hands a fragment with this boundary
\* flag to the connection on h
RoutedStep(h, flag) ==
    /\ IsStep("dequeue_and_route_acl_packet_to_connection", h)
    /\ last_op'.ret = "routed"
    /\ last_op'.arg[1] = flag

\* C22: a FIRST fragment that arrives while the recombination buffer is
\* not empty discards the buffered partial PDU: afterwards the buffer holds
\* nothing but (at most) the new fragment, so no byte of the old partial PDU
\* can be delivered by a later fragment.
C22_FirstDiscardsPartial ==
    [][\A h \in DOMAIN acl_connections_ :
          (/\ RoutedStep(h, "FIRST_AUTOMATICALLY_FLUSHABLE")
           /\ acl_connections_[h].recombination_stage_ # << >>)
          => acl_connections_'[h].recombination_stage_ \in {<< >>, last_op'.arg[2]}]_vars

\* C23: a FIRST fragment whose payload is shorter than the 4-byte L2CAP
\* header is dropped: nothing is pushed, nothing of it is kept in the
\* recombination buffer and remaining_sdu_continuation_packet_size_ is not
\* positive afterwards.
C23_ShortFirstDropped ==
    [][\A h \in DOMAIN acl_connections_ :
          (/\ RoutedStep(h, "FIRST_AUTOMATICALLY_FLUSHABLE")
           /\ Len(last_op'.arg[2]) < kL2capBasicFrameHeaderSize)
          => /\ acl_connections_'[h].incoming_queue_ = acl_connections_[h].incoming_queue_
             /\ acl_connections_'[h].recombination_stage_ = << >>
             /\ acl_connections_'[h].remaining_sdu_continuation_packet_size_ <= 0]_vars

\* C24: a CONTINUING fragment whose payload is larger than
\* remaining_sdu_continuation_packet_size_, whatever value that has, clears
\* the recombination buffer, resets the remaining size to 0, and leaves the
\* inbound queue unchanged.
C24_OversizeContinuationDropped ==
    [][\A h \in DOMAIN acl_connections_ :
          (/\ RoutedStep(h, "CONTINUING_FRAGMENT")
           /\ Len(last_op'.arg[2]) > acl_connections_[h].remaining_sdu_continuation_packet_size_)
          => /\ acl_connections_'[h].recombination_stage_ = << >>
             /\ acl_connections_'[h].remaining_sdu_continuation_packet_size_ = 0
             /\ acl_connections_'[h].incoming_queue_ = acl_connections_[h].incoming_queue_]_vars

\* C25: no peer address is at once in connecting_ and the peer of a record
\* in the connection table.
C25_ConnectingNotConnected ==
    \A h \in DOMAIN acl_connections_ :
        acl_connections_[h].address_with_type_[1] \notin connecting_

\* C26: the posts to the round-robin scheduler are ordered with the rest:
\* Register(h) is posted for a connection just created, before its
\* connect-success callback; SetDisconnect(h) before the disconnect callback;
\* Unregister(h) while the record is still in the table; and each is posted
\* at most once per connection, in that order: SetDisconnect only for a
\* connection not yet disconnected, Unregister only for a disconnected one
\* that no earlier Finish has asked to clean up.
C26_SchedulerPostsOrdered ==
    [][\A i \in DOMAIN out' :
          out'[i].k = "sched"
          => LET h == out'[i].a
             IN  CASE out'[i].op = "Register" ->
                          /\ h \notin DOMAIN acl_connections_
                          /\ i < Len(out')
                          /\ out'[i + 1].k = "post"
                          /\ out'[i + 1].a \in {"OnConnectSuccess", "OnLeConnectSuccess"}
                   [] out'[i].op = "SetDisconnect" ->
                          /\ h \in DOMAIN acl_connections_
                          /\ ~acl_connections_[h].is_disconnected_
                          /\ i < Len(out')
                          /\ out'[i + 1].k = "post"
                          /\ out'[i + 1].op = acl_connections_[h].disconnect_handler_
                   [] out'[i].op = "Unregister" ->
                          /\ h \in DOMAIN acl_connections_'
                          /\ acl_connections_[h].is_disconnected_
                          /\ \A j \in DOMAIN handler_tasks :
                                ~(handler_tasks[j].t = "cleanup" /\ handler_tasks[j].a = h)
                   [] OTHER -> FALSE]_vars

\* C27: when the command status of an Accept-Connection-Request is not
\* SUCCESS, cancel_connect runs for the address and issues
\* Create-Connection-Cancel for it if the address is still in connecting_,
\* and nothing if it is not; on SUCCESS nothing is issued.  The step changes
\* neither connecting_ nor the table.
C27_AcceptStatusCancel ==
    [][last_op'.op = "on_accept_connection_status"
       => LET address == last_op'.arg[1]
              status == last_op'.arg[2]
          IN  /\ crashed' = "no"
              /\ out' = IF status # "SUCCESS" /\ address \in connecting_
                        THEN <<Eff("hci", "CREATE_CONNECTION_CANCEL", address, Null)>>
                        ELSE << >>
              /\ UNCHANGED <<acl_connections_, connecting_, pending_outgoing_connections_>>]_vars

\* C27 as stated: every command status other than SUCCESS issues
\* Create-Connection-Cancel for the address.
C27_AcceptFailureAlwaysCancels ==
    [][last_op'.op = "on_accept_connection_status"
       => out' = IF last_op'.arg[2] # "SUCCESS"
                 THEN <<Eff("hci", "CREATE_CONNECTION_CANCEL", last_op'.arg[1], Null)>>
                 ELSE << >>]_vars

\* A refused Accept-Connection-Request has just been cancelled
C27_Witness ==
    /\ last_op.op = "on_accept_connection_status"
    /\ last_op.arg[2] # "SUCCESS"
    /\ last_op.arg[1] \in connecting_
    /\ out = <<Eff("hci", "CREATE_CONNECTION_CANCEL", last_op.arg[1], Null)>>

\* The fields of a connection record that the source has
SourceFields(c) == [c EXCEPT !.hist_disconnect_called = FALSE]

\* C28: every change of the connection table and of a connection record is
\* made by a step that runs on the manager's handler (an event handler or a
\* posted task): an operation of a connection proxy, which runs in its
\* caller's context, changes neither.
C28_MutationsOnHandler ==
    [][last_op'.op \in ProxyOps
       => /\ DOMAIN acl_connections_' = DOMAIN acl_connections_
          /\ \A h \in DOMAIN acl_connections_ :
                SourceFields(acl_connections_'[h]) = SourceFields(acl_connections_[h])]_vars

\* The calls made on the down end of the inbound queue of h in this step
QueueCalls(h, name) ==
    \E i \in DOMAIN out' : out'[i].k = "queue" /\ out'[i].op = name /\ out'[i].a = h

\* C29: RegisterEnqueue is called only by an enqueue that finds
\* enqueue_registered_ false; UnregisterEnqueue only while the flag is true,
\* by a dequeue that drains the inbound queue to empty or by the destruction
\* of a record that is still registered; the flag changes with these calls
\* only, so the two alternate, starting with RegisterEnqueue; and between
\* steps enqueue_registered_ is true exactly when the inbound queue is not
\* empty.
C29_RegistrationAlternates ==
    [][/\ \A h \in Handles :
             /\ QueueCalls(h, "RegisterEnqueue")
                => /\ last_op'.op = "dequeue_and_route_acl_packet_to_connection"
                   /\ h \in DOMAIN acl_connections_
                   /\ ~acl_connections_[h].enqueue_registered_
                   /\ acl_connections_'[h].enqueue_registered_
                   /\ Len(acl_connections_'[h].incoming_queue_) = Len(acl_connections_[h].incoming_queue_) + 1
             /\ QueueCalls(h, "UnregisterEnqueue")
                => /\ h \in DOMAIN acl_connections_
                   /\ acl_connections_[h].enqueue_registered_
                   /\ \/ /\ last_op'.op = "on_incoming_data_ready"
                         /\ acl_connections_'[h].incoming_queue_ = << >>
                         /\ ~acl_connections_'[h].enqueue_registered_
                      \/ /\ last_op'.op = "cleanup"
                         /\ h \notin DOMAIN acl_connections_'
             /\ (h \in DOMAIN acl_connections_ /\ h \in DOMAIN acl_connections_')
                => /\ (~acl_connections_[h].enqueue_registered_ /\ acl_connections_'[h].enqueue_registered_)
                      => QueueCalls(h, "RegisterEnqueue")
                   /\ (acl_connections_[h].enqueue_registered_ /\ ~acl_connections_'[h].enqueue_registered_)
                      => QueueCalls(h, "UnregisterEnqueue")
       /\ \A h \in DOMAIN acl_connections_' :
             acl_connections_'[h].enqueue_registered_ <=> acl_connections_'[h].incoming_queue_ # << >>]_vars

\* C29 as stated: UnregisterEnqueue is called only when a dequeue drains the
\* inbound queue to empty.
C29_UnregisterOnlyOnDrain ==
    [][\A h \in Handles :
          QueueCalls(h, "UnregisterEnqueue")
          => /\ last_op'.op = "on_incoming_data_ready"
             /\ h \in DOMAIN acl_connections_'
             /\ acl_connections_'[h].incoming_queue_ = << >>]_vars

\* The consumer has just drained the inbound queue and the producer has been
\* unregistered
C29_Witness ==
    /\ last_op.op = "on_incoming_data_ready"
    /\ last_op.handle \in DOMAIN acl_connections_
    /\ acl_connections_[last_op.handle].incoming_queue_ = << >>
    /\ ~acl_connections_[last_op.handle].enqueue_registered_
    /\ \E i \in DOMAIN out : out[i].k = "queue" /\ out[i].op = "UnregisterEnqueue"

\* C30: with the consumer in a context of its own, whatever the
\* interleaving of the steps of producer and consumer, the consumer never
\* pops an empty queue, and whenever both are between calls a non-empty
\* inbound queue has its producer registered with the down end.
C30_NoStrandedPdu ==
    /\ crashed # "front() of empty incoming_queue_"
    /\ last_op.op = "on_incoming_data_ready_pop" => last_op.ret # "popped_empty"
    /\ \A h \in DOMAIN acl_connections_ :
          (/\ reactor[h].producer = "idle"
           /\ reactor[h].consumer = "idle"
           /\ acl_connections_[h].incoming_queue_ # << >>)
          => reactor[h].registered

\* C31: whenever pending_outgoing_connections_ is not empty, connecting_ is
\* not empty: a queued request always has an attempt in progress whose
\* completion releases it.
C31_PendingImpliesConnecting ==
    pending_outgoing_connections_ # << >> => connecting_ # {}

\* C32: a LeConnectionUpdate on a live connection with no update pending
\* that returns false because a parameter is out of range leaves the
\* pending-update slot (callback and handler) empty, so that a following
\* LeConnectionUpdate with valid parameters is not refused as pending.
C32_InvalidUpdateLeavesSlotEmpty ==
    [][\A h \in DOMAIN acl_connections_ :
          (/\ IsStep("LeConnectionUpdate", h)
           /\ ~acl_connections_[h].is_disconnected_
           /\ UpdateSlot(acl_connections_[h]) = <<Null, Null>>
           /\ LeUpdateParamsInvalid(last_op'.arg[1]))
          => /\ last_op'.ret = FALSE
             /\ UpdateSlot(acl_connections_'[h]) = <<Null, Null>>
             /\ LeConnectionUpdateDecision(acl_connections_'[h], <<6, 3200, 499, 10>>) = "post"]_vars

\* C33: the LE CONNECTION_UPDATE_COMPLETE event for a handle with an update
\* in flight releases it whatever its status: afterwards the pending-update
\* slot of a live connection is empty, so a following valid update is
\* accepted; with status SUCCESS the done callback is posted once, on its
\* handler.
C33_UpdateCompleteReleases ==
    [][\A h \in DOMAIN acl_connections_ :
          (/\ IsStep("on_le_connection_update_complete", h)
           /\ le_updates[h] = 1
           /\ ~acl_connections_[h].is_disconnected_)
          => /\ UpdateSlot(acl_connections_'[h]) = <<Null, Null>>
             /\ LeConnectionUpdateDecision(acl_connections_'[h], <<6, 3200, 499, 10>>) = "post"
             /\ last_op'.arg = "SUCCESS"
                => out' = <<Eff("post", acl_connections_[h].on_connection_update_complete_callback_handler_,
                                acl_connections_[h].on_connection_update_complete_callback_, "SUCCESS")>>]_vars

\* C34: the one-shot disconnect callback is posted at most once per
\* registration and never as an empty callback or to a null handler: every
\* post made by DISCONNECTION_COMPLETE or by RegisterDisconnectCallback
\* carries a callback that is registered and not yet consumed, and goes to
\* its handler; with nothing registered, nothing is posted and nothing fails.
C34_DisconnectCallbackOncePerRegistration ==
    [][last_op'.op \in {"on_disconnection_complete", "RegisterDisconnectCallback"}
       => /\ crashed' # "null disconnect_handler_"
          /\ \A i \in DOMAIN out' :
                out'[i].k = "post" => /\ out'[i].op # Null
                                      /\ out'[i].a # Null
          /\ \A h \in DOMAIN acl_connections_ :
                (/\ last_op'.op = "on_disconnection_complete"
                 /\ last_op'.handle = h
                 /\ acl_connections_[h].on_disconnect_callback_ = Null)
                => \A i \in DOMAIN out' : out'[i].k # "post"]_vars

\* C35: however the statements of one RegisterDisconnectCallback and of one
\* on_disconnection_complete on a connection interleave, once both have
\* returned the registered callback has been posted exactly once, to its
\* handler, with the reason of the disconnection event.
C35_RegistrationRacesDisconnection ==
    \A h \in DOMAIN acl_connections_ :
          (/\ in_progress[h].calls = 1
           /\ in_progress[h].events = 1
           /\ in_progress[h].registration = "idle"
           /\ in_progress[h].disconnection = "idle"
           /\ crashed = "no")
          => SelectSeq(in_progress[h].posted, LAMBDA e : e.a # Null)
                 = <<Eff("post", in_progress[h].handler, in_progress[h].on_disconnect,
                         in_progress[h].reason)>>

\* C36: a posted handle_* task enqueues an HCI command for a handle only
\* while the handle is in the table and its is_disconnected_ flag is false,
\* and the assertion of a handle_* task that the handle is in the table
\* never fails.
C36_NoCommandAfterDisconnection ==
    [][last_op'.op \in {"handle_disconnect", "handle_change_connection_packet_type",
                        "handle_read_rssi", "handle_le_connection_update"}
       => /\ crashed' # "ASSERT acl_connections_.count(handle) == 1"
          /\ \A i \in DOMAIN out' :
                out'[i].k = "hci"
                => /\ out'[i].a \in DOMAIN acl_connections_
                   /\ ~acl_connections_[out'[i].a].is_disconnected_]_vars

\* C37: an LE connection-complete event, plain or enhanced and of any status,
\* whose peer address is an address create_le_connection put into
\* connecting_le_, leaves connecting_le_ without that address, also when the
\* enhanced event carries a peer resolvable private address.
C37_LeCompleteRemovesConnecting ==
    [][(/\ last_op'.op \in {"on_le_connection_complete", "on_le_enhanced_connection_complete"}
        /\ last_op'.ret # "abort"
        /\ last_op'.arg[3] \in connecting_le_)
       => last_op'.arg[3] \notin connecting_le_']_vars

\* C38: a MODE_CHANGE event never posts OnModeChange with a null callbacks
\* object; in particular it posts nothing for a connection between
\* UnregisterCallbacks and the next RegisterCallbacks.
C38_NoPostAfterUnregister ==
    [][last_op'.op = "on_mode_change"
       => \A i \in DOMAIN out' :
             out'[i].k = "post" => out'[i].b[1] # Null]_vars

\* C39: ReadDefaultLinkPolicySettings returns the value most recently passed
\* to WriteDefaultLinkPolicySettings, wherever the completion of the Read
\* command that Start issued falls.
C39_ReadReturnsLastWritten ==
    [][(last_op'.op = "ReadDefaultLinkPolicySettings" /\ link_policy.written # << >>)
       => last_op'.ret = link_policy.written[1]]_vars

\* C40: after Stop nothing that Start registered with the HCI layer is still
\* registered: no event handler, no LE meta-event handler and no dequeue
\* callback.
C40_StopUnregistersAll ==
    ~started => /\ event_handlers.events = {}
                /\ event_handlers.le_events = {}
                /\ ~event_handlers.dequeue

====
